---- MODULE Spec2Model ----
(***************************************************************************)
(* Model of claude-orchestra's delegated-call core:                        *)
(*   lib/budget.py         the token/concurrency ledger kept in a JSON     *)
(*                         file that every process opens, flock()s, reads, *)
(*                         truncates, rewrites, unlocks and closes;        *)
(*   lib/codex_wrapper.py, lib/gemini_wrapper.py   the call lifecycle;     *)
(*   lib/resilience.py     failure classification, retry, fallback;        *)
(*   lib/context_guard.py  the content guard.                              *)
(*                                                                         *)
(* The ledger is modelled at the granularity of the system calls that      *)
(* touch the shared file (POSIX branch of _file_lock/_file_unlock).  A     *)
(* Python text file buffers fh.write(): the bytes reach the file when the  *)
(* handle is flushed, which in _save_state_locked is fh.close(), the       *)
(* statement after _file_unlock(fh).                                       *)
(***************************************************************************)
EXTENDS Integers, Sequences, FiniteSets, TLC

VARIABLES
    file,                    \* content of budget_session.json on disk
    lockOwner,               \* the processes holding the flock: none or one
    DEFAULT_MAX_CONCURRENT,  \* ORCHESTRA_MAX_CONCURRENT as read at import
    env,                     \* the environment variables context_guard reads
    world,                   \* what surrounds the program in this run: the inputs its
                             \* callers pass, the answers the delegates give, how many
                             \* lifecycles and direct ledger operations are started
    pc,                      \* per process: position inside a ledger operation
    op,                      \* per process: the ledger operation in progress
    arg,                     \* per process: [agent, tokens] argument of the operation
    st,                      \* per process: the state dict loaded by _load_state_locked
    buf,                     \* per process: text written to fh and not yet flushed
    ret,                     \* per process: value returned by the last ledger operation
    life,                    \* per process: the call lifecycle in progress or last returned
    auditLog,                \* context_guard_audit.jsonl
    call,                    \* the last function applied on its own: [fn, args, out]
    nops,                    \* history: ledger operations invoked directly so far
    nlife,                   \* history: lifecycles started so far
    init0,                   \* history: the ledger state at the start
    invoked,                 \* history: names of the ledger operations invoked directly
    grants,                  \* history: direct acquire_slot calls that returned True
    recSum,                  \* history: sum of tokens_used of the direct record_call calls that returned
    recCnt,                  \* history: number of direct record_call calls that returned
    fault,                   \* history, per process: the step of its current ledger
                             \* operation that raised, "none" when none did
    hist,                    \* history: the direct operations that returned, in order:
                             \* [op, arg, ret]; kept when world.history
    dirty                    \* history, per process: its current call changed the ledger state

fileVars == <<file, lockOwner>>
\* what the ledger operations and the lifecycle leave alone
sideVars == <<DEFAULT_MAX_CONCURRENT, env, world, call>>
opVars == <<pc, op, arg, st, buf, ret>>
lifeVars == <<life, auditLog>>
tallyVars == <<nops, nlife, init0, invoked, grants, recSum, recCnt>>
countVars == <<tallyVars, fault, hist>>
vars == <<fileVars, sideVars, opVars, lifeVars, countVars, dirty>>

----------------------------------------------------------------------------
(* Bounds *)

NumProcs == 2
MaxOps == 3
MaxLife == 2
MaxConcurrentCfg == 2

Procs == 1..NumProcs

(* Program constants *)

DEFAULT_TOKEN_BUDGET == 500000

Agents == {"codex", "gemini"}

----------------------------------------------------------------------------
(* The state dict and its JSON text *)

Defaults ==
    [total_tokens |-> 0, calls |-> <<>>, active_calls |-> 0,
     budget_limit |-> DEFAULT_TOKEN_BUDGET, max_concurrent |-> DEFAULT_MAX_CONCURRENT]

RECURSIVE Digits(_)
Digits(n) == IF n < 10 THEN 1 ELSE 1 + Digits(n \div 10)

RECURSIVE SumTokens(_)
SumTokens(calls) ==
    IF calls = <<>> THEN 0 ELSE Head(calls).tokens + SumTokens(Tail(calls))

AgentChars(a) == IF a = "codex" THEN 5 ELSE 6

\* characters of one call record in json.dumps(state, indent=2); duration_ms
\* and timestamp are not modelled and counted with a fixed width
RecordChars(r) == 112 + AgentChars(r.agent) + Digits(r.tokens)

RECURSIVE CallsChars(_)
CallsChars(calls) ==
    IF calls = <<>> THEN 0 ELSE RecordChars(Head(calls)) + CallsChars(Tail(calls))

\* len(json.dumps(state, indent=2))
JsonChars(s) ==
    99 + Digits(s.total_tokens) + Digits(s.active_calls) + Digits(s.budget_limit)
       + Digits(s.max_concurrent)
       + (IF s.calls = <<>> THEN 0 ELSE 2 + CallsChars(s.calls))

\* File contents.  kind: "nofile" (path does not exist), "empty" (zero
\* bytes), "braces" (the text {}), "state" (a dumped state dict) or
\* "corrupt" (text json.loads rejects) or "nonobject" (JSON text of a value
\* that is no object, such as []).
NoFile == [st |-> <<>>, kind |-> "nofile", size |-> 0]
EmptyFile == [st |-> <<>>, kind |-> "empty", size |-> 0]
BracesFile == [st |-> <<>>, kind |-> "braces", size |-> 2]
StateFile(s) == [st |-> s, kind |-> "state", size |-> JsonChars(s)]
CorruptFile(n) == [st |-> <<>>, kind |-> "corrupt", size |-> n]
NonObjectFile == [st |-> <<>>, kind |-> "nonobject", size |-> 2]

\* json.loads(content) is a dict, or content is rejected and replaced by {}
IsObject(content) == content.kind # "nonobject"

NoBuf == [st |-> <<>>, kind |-> "nobuf", size |-> 0]

\* Bytes written at offset 0 of a file that is not truncated by the write:
\* the new text replaces the old one when it is at least as long, otherwise
\* the tail of the old text stays behind it and the result does not parse.
Overlay(new, old) ==
    IF new.size >= old.size THEN new ELSE CorruptFile(old.size)

\* lines 78-88 of _load_state_locked: parse, {} on failure, then setdefault
Parse(content) ==
    IF content.kind = "state" THEN content.st ELSE Defaults

----------------------------------------------------------------------------
(* Return values *)

RetNone == [kind |-> "none"]
RetBool(b) == [kind |-> "bool", val |-> b]

\* check_budget with a strict comparison of remaining and the estimate
CheckBudgetResultStrict(s, estimated_tokens) ==
    LET remaining == s.budget_limit - s.total_tokens
    IN  [active_calls |-> s.active_calls,
         max_concurrent |-> s.max_concurrent,
         kind |-> "budget", remaining |-> remaining,
         allowed |-> (remaining > estimated_tokens /\ s.active_calls < s.max_concurrent),
         used |-> s.total_tokens, limit |-> s.budget_limit,
         fallback |-> FALSE]

\* check_budget lines 112-121
CheckBudgetResult(s, estimated_tokens) ==
    LET remaining == s.budget_limit - s.total_tokens
    IN  [active_calls |-> s.active_calls,
         max_concurrent |-> s.max_concurrent,
         kind |-> "budget", remaining |-> remaining,
         allowed |-> (remaining >= estimated_tokens /\ s.active_calls < s.max_concurrent),
         used |-> s.total_tokens, limit |-> s.budget_limit,
         fallback |-> FALSE]

NoArg == [tokens |-> 0, agent |-> "codex"]

RECURSIVE CallsOf(_, _)
\* the records of calls whose agent is a
CallsOf(calls, a) ==
    IF calls = <<>> THEN <<>>
    ELSE (IF Head(calls).agent = a THEN <<Head(calls)>> ELSE <<>>) \o CallsOf(Tail(calls), a)

\* _summarize_by_agent: per agent that has records, their number and tokens
summarize_by_agent(calls) ==
    [a \in {calls[i].agent : i \in DOMAIN calls} |->
        [calls |-> Len(CallsOf(calls, a)), tokens |-> SumTokens(CallsOf(calls, a))]]

\* get_summary lines 233-239
Summary(s) ==
    [total_tokens |-> s.total_tokens, budget_limit |-> s.budget_limit, kind |-> "summary",
     total_calls |-> Len(s.calls), remaining_tokens |-> s.budget_limit - s.total_tokens,
     by_agent |-> summarize_by_agent(s.calls)]

----------------------------------------------------------------------------
(* Content handled by context_guard.py.                                     *)
(* A text is a sequence of pieces [k, c, n]: n characters of kind k.        *)
(*   "kw"   a keyword of the generic-secret detector, e.g. token            *)
(*   "eq"   the character = (or :)                                          *)
(*   "sp"   n blanks           "nl"  n newlines        "qt"  a quote        *)
(*   "run"  n copies of the character c, none of them blank or quote        *)
(*   "ak"   an AWS access key id, AKIA followed by 16 characters, whose     *)
(*          characters are named by c                                       *)
(*   "red"  the placeholder [REDACTED]                                      *)
(*   "akw"  the upper-case keyword API_KEY                                  *)
(*   "sym"  n characters that are neither blank, quote nor word character,  *)
(*          e.g. the + / = of base64                                        *)

Piece(k, c, n) == [n |-> n, k |-> k, c |-> c]
Kw == Piece("kw", "token", 5)
Eq == Piece("eq", "=", 1)
Sp(n) == Piece("sp", " ", n)
Nl(n) == Piece("nl", "\n", n)
Qt == Piece("qt", "\"", 1)
Run(c, n) == Piece("run", c, n)
Ak(c) == Piece("ak", c, 20)
Red == Piece("red", "[REDACTED]", 10)
Akw == Piece("akw", "API_KEY", 7)
Sym(n) == Piece("sym", "+", n)

\* "\n\n[TRUNCATED: content exceeded size limit]" of guard_context line 252
TruncationMarker ==
    <<Nl(2), Run("[TRUNCATED:", 11), Sp(1), Run("content", 7), Sp(1),
      Run("exceeded", 8), Sp(1), Run("size", 4), Sp(1), Run("limit]", 6)>>

MAX_CONTEXT_SIZE == 100000

RECURSIVE CLen(_)
\* len(content)
CLen(c) == IF c = <<>> THEN 0 ELSE Head(c).n + CLen(Tail(c))

\* the first n characters of one piece; a keyword, key or placeholder that is
\* cut is no longer one
CutPiece(t, n) ==
    IF t.k \in {"kw", "ak", "red", "akw"} THEN Run(t.c, n) ELSE [t EXCEPT !.n = n]

RECURSIVE Take(_, _)
\* content[:n]
Take(c, n) ==
    IF c = <<>> \/ n <= 0 THEN <<>>
    ELSE IF Head(c).n <= n THEN <<Head(c)>> \o Take(Tail(c), n - Head(c).n)
    ELSE <<CutPiece(Head(c), n)>>

IsWs(t) == t.k \in {"sp", "nl"}
\* a character of the class [^\s"']
IsVal(t) == t.k \in {"kw", "eq", "run", "ak", "red", "akw", "sym"}
\* a character of the class [\w\-]: letters, digits, underscore, dash
IsWord(t) == t.k \in {"kw", "akw", "ak"} \/ (t.k = "run" /\ t.c \in {"a", "b", "s", "x", "y"})

RECURSIVE SkipWs(_, _)
\* \s* from piece i: index of the first piece that is not whitespace
SkipWs(c, i) == IF i <= Len(c) /\ IsWs(c[i]) THEN SkipWs(c, i + 1) ELSE i

RECURSIVE ValEnd(_, _)
\* greedy [^\s"']*: index of the last piece of the run of value pieces that
\* starts at i, i - 1 when there is none
ValEnd(c, i) == IF i <= Len(c) /\ IsVal(c[i]) THEN ValEnd(c, i + 1) ELSE i - 1

SubText(c, i, j) == IF i > j THEN <<>> ELSE SubSeq(c, i, j)

\* _SECRET_PATTERNS[6], (?:secret|token|...)\s*[:=]\s*["']?[^\s"']{8,},
\* matched at piece i: index of the last piece of the match, 0 when none
GenericEnd(c, i) ==
    IF c[i].k # "kw" THEN 0
    ELSE LET a == SkipWs(c, i + 1)
         IN  IF a > Len(c) \/ c[a].k # "eq" THEN 0
             ELSE LET b == SkipWs(c, a + 1)
                      v == IF b <= Len(c) /\ c[b].k = "qt" THEN b + 1 ELSE b
                      e == ValEnd(c, v)
                  IN  IF CLen(SubText(c, v, e)) >= 8 THEN e ELSE 0

\* _SECRET_PATTERNS[1], AKIA[0-9A-Z]{16}
AwsEnd(c, i) == IF c[i].k = "ak" THEN i ELSE 0

RECURSIVE WordEnd(_, _)
\* greedy [\w\-]*: index of the last piece of the run of word pieces that
\* starts at i, i - 1 when there is none
WordEnd(c, i) == IF i <= Len(c) /\ IsWord(c[i]) THEN WordEnd(c, i + 1) ELSE i - 1

\* _SECRET_PATTERNS[0], (?:api[_-]?key|apikey)\s*[:=]\s*["']?[\w\-]{20,},
\* case-insensitive
ApiKeyEnd(c, i) ==
    IF c[i].k # "akw" THEN 0
    ELSE LET a == SkipWs(c, i + 1)
         IN  IF a > Len(c) \/ c[a].k # "eq" THEN 0
             ELSE LET b == SkipWs(c, a + 1)
                      v == IF b <= Len(c) /\ c[b].k = "qt" THEN b + 1 ELSE b
                      e == WordEnd(c, v)
                  IN  IF CLen(SubText(c, v, e)) >= 20 THEN e ELSE 0

RECURSIVE NonWsEnd(_, _)
\* greedy \S*: index of the last piece of the run of pieces that are no
\* whitespace and starts at i, i - 1 when there is none
NonWsEnd(c, i) == IF i <= Len(c) /\ ~IsWs(c[i]) THEN NonWsEnd(c, i + 1) ELSE i - 1

\* _SECRET_PATTERNS[9], ^[A-Z_]{3,}=\S{8,}$ with re.MULTILINE: a whole line
EnvEnd(c, i) ==
    IF c[i].k # "akw" \/ (i > 1 /\ c[i - 1].k # "nl") THEN 0
    ELSE IF i + 1 > Len(c) \/ c[i + 1].k # "eq" THEN 0
    ELSE LET e == NonWsEnd(c, i + 2)
         IN  IF CLen(SubText(c, i + 2, e)) >= 8 /\ (e = Len(c) \/ c[e + 1].k = "nl")
             THEN e ELSE 0

PatternEnd(pat, c, i) ==
    CASE pat = "api_key" -> ApiKeyEnd(c, i)
      [] pat = "aws" -> AwsEnd(c, i)
      [] pat = "generic" -> GenericEnd(c, i)
      [] pat = "env" -> EnvEnd(c, i)

\* the detectors modelled, in the order of _SECRET_PATTERNS
SecretPatterns == <<"api_key", "aws", "generic", "env">>

RECURSIVE Spans(_, _, _)
\* pattern.finditer(content): the matches <<first, last>> from piece i on,
\* leftmost first and not overlapping
Spans(pat, c, i) ==
    IF i > Len(c) THEN <<>>
    ELSE LET e == PatternEnd(pat, c, i)
         IN  IF e > 0 THEN <<(<<i, e>>)>> \o Spans(pat, c, e + 1)
             ELSE Spans(pat, c, i + 1)

RECURSIVE Newlines(_)
Newlines(c) ==
    IF c = <<>> THEN 0
    ELSE (IF Head(c).k = "nl" THEN Head(c).n ELSE 0) + Newlines(Tail(c))

\* one finding of scan_secrets, lines 121-128
Finding(pat, c, span) ==
    [pattern |-> pat,
     match |-> Take(SubText(c, span[1], span[2]), 8) \o <<Run("*", 3)>>,
     line |-> Newlines(SubText(c, 1, span[1] - 1)) + 1]

RECURSIVE ScanFrom(_, _)
ScanFrom(k, c) ==
    IF k > Len(SecretPatterns) THEN <<>>
    ELSE LET sp == Spans(SecretPatterns[k], c, 1)
         IN  [j \in 1..Len(sp) |-> Finding(SecretPatterns[k], c, sp[j])]
             \o ScanFrom(k + 1, c)

\* scan_secrets
scan_secrets(c) == ScanFrom(1, c)

RECURSIVE Sub(_, _, _)
\* pattern.sub("[REDACTED]", content) from piece i on
Sub(pat, c, i) ==
    IF i > Len(c) THEN <<>>
    ELSE LET e == PatternEnd(pat, c, i)
         IN  IF e > 0 THEN <<Red>> \o Sub(pat, c, e + 1)
             ELSE <<c[i]>> \o Sub(pat, c, i + 1)

RECURSIVE RedactFrom(_, _)
RedactFrom(k, c) ==
    IF k > Len(SecretPatterns) THEN c
    ELSE RedactFrom(k + 1, Sub(SecretPatterns[k], c, 1))

\* redact_secrets
redact_secrets(c) == RedactFrom(1, c)

----------------------------------------------------------------------------
(* guard_context and its configuration *)

\* cfg: [policy, strict, project_dir, extra]: ORCHESTRA_CONSENT_POLICY as
\* set, ORCHESTRA_STRICT_ORIGIN = "1", CLAUDE_PROJECT_DIR set,
\* ORCHESTRA_ALLOWED_DIRS set
ValidPolicies == {"block", "redact", "require_allowlist"}

AuditEntry(event, details) == [event |-> event, details |-> details]

\* _get_consent_policy: the policy in force and what it appends to the audit log
ConsentPolicy(cfg) == IF cfg.policy \in ValidPolicies THEN cfg.policy ELSE "redact"
ConsentPolicyAudit(cfg) ==
    IF cfg.policy \in ValidPolicies THEN <<>>
    ELSE <<AuditEntry("invalid_policy", [raw |-> cfg.policy])>>

\* _build_allowed_dirs: the trusted roots and what the call appends to the audit log
AllowedDirs(cfg) ==
    {"home_claude"} \cup (IF cfg.project_dir THEN {"project"} ELSE {})
                    \cup (IF cfg.extra THEN {"extra"} ELSE {})
AllowedDirsAudit(cfg) ==
    IF ~cfg.project_dir /\ ~cfg.extra THEN <<AuditEntry("no_project_dir", <<>>)>> ELSE <<>>

\* A path of source_files: [base, up, name]: a file called name, written as
\* base followed by up times "..".  Path(...).resolve() leaves base when up > 0.
Resolve(f) == IF f.up = 0 THEN f.base ELSE "elsewhere"

RECURSIVE SelectPaths(_, _)
SelectPaths(fs, bad) ==
    IF fs = <<>> THEN <<>>
    ELSE (IF Head(fs) \in bad THEN <<Head(fs)>> ELSE <<>>) \o SelectPaths(Tail(fs), bad)

Range(f) == {f[i] : i \in DOMAIN f}

\* enforce_allowed_dirs: the violations
enforce_allowed_dirs(fs, cfg) ==
    SelectPaths(fs, {f \in Range(fs) : Resolve(f) \notin AllowedDirs(cfg)})

\* Path(name).suffix.lower() in _BLOCKED_EXTENSIONS
BlockedExtension(name) == name \in {"server.pem"}
\* some _BLOCKED_PATTERNS entry matches name
BlockedPattern(name) == name \in {".env.production.local", "id_rsa"}

check_file_allowed(f) == ~BlockedExtension(f.name) /\ ~BlockedPattern(f.name)

NoFiles == [given |-> FALSE, paths |-> <<>>]
Files(fs) == [given |-> TRUE, paths |-> fs]

Rejected(reason, audit) ==
    [content |-> <<>>, reason |-> reason, audit |-> audit, verdict |-> "Rejected"]
Returned(verdict, content, audit) ==
    [content |-> content, reason |-> [kind |-> "none"], audit |-> audit, verdict |-> verdict]

\* step 1, lines 250-253
SizeCap(content) ==
    IF CLen(content) > MAX_CONTEXT_SIZE
    THEN Take(content, MAX_CONTEXT_SIZE) \o TruncationMarker
    ELSE content

\* steps 5 and 6 with the findings themselves in the reason and in the audit record
ScanAndApplyLeaky(content, policy, audit) ==
    LET findings == scan_secrets(content)
        log == audit \o <<AuditEntry("secrets_found", [policy |-> policy, findings |-> findings,
                                                        count |-> Len(findings)])>>
    IN  IF findings = <<>> THEN Returned("Passed", content, audit)
        ELSE IF policy = "block"
             THEN Rejected([kind |-> "secrets", findings |-> findings, count |-> Len(findings)], log)
             ELSE Returned("Redacted", redact_secrets(content), log)

\* steps 5 and 6, lines 303-317
ScanAndApply(content, policy, audit) ==
    LET findings == scan_secrets(content)
        log == audit \o <<AuditEntry("secrets_found", [policy |-> policy, count |-> Len(findings)])>>
    IN  IF findings = <<>> THEN Returned("Passed", content, audit)
        ELSE IF policy = "block"
             THEN Rejected([kind |-> "secrets", count |-> Len(findings)], log)
             ELSE Returned("Redacted", redact_secrets(content), log)

\* steps 3 and 4 exchanged: the blocklist of file names before the directories
CheckFilesPatternFirst(content, fs, cfg, policy, audit) ==
    LET violations == enforce_allowed_dirs(fs, cfg)
        a3 == audit \o AllowedDirsAudit(cfg)
        blocked == SelectPaths(fs, {f \in Range(fs) : ~check_file_allowed(f)})
    IN  IF blocked # <<>>
        THEN Rejected([kind |-> "files", files |-> blocked],
                      audit \o <<AuditEntry("blocked_files", blocked)>>)
        ELSE IF violations # <<>>
        THEN Rejected([kind |-> "directory", allowed |-> AllowedDirs(cfg), files |-> violations],
                      a3 \o AllowedDirsAudit(cfg)
                         \o <<AuditEntry("blocked_directory", violations)>>)
        ELSE ScanAndApply(content, policy, a3)

\* steps 3 and 4, lines 282-301
CheckFiles(content, fs, cfg, policy, audit) ==
    LET violations == enforce_allowed_dirs(fs, cfg)
        a3 == audit \o AllowedDirsAudit(cfg)
        blocked == SelectPaths(fs, {f \in Range(fs) : ~check_file_allowed(f)})
    IN  IF violations # <<>>
        THEN Rejected([kind |-> "directory", allowed |-> AllowedDirs(cfg), files |-> violations],
                      a3 \o AllowedDirsAudit(cfg)
                         \o <<AuditEntry("blocked_directory", violations)>>)
        ELSE IF blocked # <<>>
        THEN Rejected([kind |-> "files", files |-> blocked],
                      a3 \o <<AuditEntry("blocked_files", blocked)>>)
        ELSE ScanAndApply(content, policy, a3)

\* a guard for which only None, not the empty list, is an unknown origin
guard_context_none_only(content0, source_files, cfg) ==
    LET content == SizeCap(content0)
        policy == ConsentPolicy(cfg)
        a1 == ConsentPolicyAudit(cfg)
    IN  IF ~source_files.given
        THEN IF policy = "require_allowlist"
             THEN Rejected([kind |-> "unknown_origin"],
                           a1 \o <<AuditEntry("blocked_unknown_origin", <<>>)>>)
             ELSE IF cfg.strict
             THEN Rejected([kind |-> "strict_origin"],
                           a1 \o <<AuditEntry("blocked_strict_origin", [policy |-> policy])>>)
             ELSE ScanAndApply(content, policy,
                               a1 \o <<AuditEntry("unknown_origin", [policy |-> policy])>>)
        ELSE CheckFiles(content, source_files.paths, cfg, policy, a1)

\* a guard that applies the size cap last, to what the other steps return
guard_context_cap_last(content0, source_files, cfg) ==
    LET policy == ConsentPolicy(cfg)
        a1 == ConsentPolicyAudit(cfg)
        g == IF source_files.paths = <<>>
             THEN IF policy = "require_allowlist"
                  THEN Rejected([kind |-> "unknown_origin"],
                                a1 \o <<AuditEntry("blocked_unknown_origin", <<>>)>>)
                  ELSE IF cfg.strict
                  THEN Rejected([kind |-> "strict_origin"],
                                a1 \o <<AuditEntry("blocked_strict_origin", [policy |-> policy])>>)
                  ELSE ScanAndApply(content0, policy,
                                    a1 \o <<AuditEntry("unknown_origin", [policy |-> policy])>>)
             ELSE CheckFiles(content0, source_files.paths, cfg, policy, a1)
    IN  IF g.verdict = "Rejected" THEN g ELSE [g EXCEPT !.content = SizeCap(@)]

\* guard_context(content, source_files) under the configuration cfg
guard_context(content0, source_files, cfg) ==
    LET content == SizeCap(content0)
        policy == ConsentPolicy(cfg)
        a1 == ConsentPolicyAudit(cfg)
    IN  IF source_files.paths = <<>>
        THEN IF policy = "require_allowlist"
             THEN Rejected([kind |-> "unknown_origin"],
                           a1 \o <<AuditEntry("blocked_unknown_origin", <<>>)>>)
             ELSE IF cfg.strict
             THEN Rejected([kind |-> "strict_origin"],
                           a1 \o <<AuditEntry("blocked_strict_origin", [policy |-> policy])>>)
             ELSE ScanAndApply(content, policy,
                               a1 \o <<AuditEntry("unknown_origin", [policy |-> policy])>>)
        ELSE CheckFiles(content, source_files.paths, cfg, policy, a1)

----------------------------------------------------------------------------
(* Initial states *)

InitCalls == {<<>>, <<[tokens |-> 495000, agent |-> "codex"]>>}

\* ledger states a previous run of the program can have left in the file
InitStates(maxc) ==
    {[total_tokens |-> SumTokens(c), calls |-> c, active_calls |-> a,
      budget_limit |-> DEFAULT_TOKEN_BUDGET, max_concurrent |-> maxc] :
        a \in 0..maxc, c \in InitCalls}

InitFiles(maxc) == {NoFile} \cup {StateFile(s) : s \in InitStates(maxc)}

\* the environment when no variable is set, except CLAUDE_PROJECT_DIR
\* (bootstrap.py sets it)
DefaultEnv == [policy |-> "redact", project_dir |-> TRUE, extra |-> FALSE, strict |-> TRUE]

NoGuard == [content |-> <<>>, reason |-> [kind |-> "none"], audit |-> <<>>, verdict |-> "none"]
NoError == [name |-> "", markers |-> {}]
NoResult ==
    [remaining |-> 0, fallback |-> FALSE, success |-> FALSE, error |-> NoError,
     failure_type |-> "", attempts |-> 0, original_task |-> <<>>, output_chars |-> 0]

NoCall == [fn |-> "none"]

NoLife ==
    [agent |-> "codex", content |-> <<>>, allowed |-> FALSE, files |-> NoFiles,
     attempts |-> 0, phase |-> "none", acquired |-> FALSE, factor |-> <<1, 1>>,
     delays |-> <<>>, trace |-> <<>>, fn_calls |-> 0,
     n_acquire |-> 0, n_record |-> 0, n_release |-> 0, recorded |-> 0,
     result |-> NoResult, returned |-> FALSE]

\* every process idle, nothing logged, nothing counted
InitProgram ==
    /\ lockOwner = {}
    /\ pc = [p \in Procs |-> "idle"]
    /\ op = [p \in Procs |-> "none"]
    /\ arg = [p \in Procs |-> NoArg]
    /\ st = [p \in Procs |-> <<>>]
    /\ buf = [p \in Procs |-> NoBuf]
    /\ ret = [p \in Procs |-> RetNone]
    /\ life = [p \in Procs |-> NoLife]
    /\ auditLog = <<>>
    /\ call = NoCall
    /\ nops = 0
    /\ nlife = 0
    /\ invoked = {}
    /\ grants = 0
    /\ recSum = 0
    /\ recCnt = 0
    /\ fault = [p \in Procs |-> "none"]
    /\ hist = <<>>
    /\ dirty = [p \in Procs |-> FALSE]

InitCommon ==
    /\ DEFAULT_MAX_CONCURRENT \in 1..MaxConcurrentCfg
    /\ file \in InitFiles(DEFAULT_MAX_CONCURRENT)
    /\ init0 = Parse(file)
    /\ InitProgram

\* ledger operations only
LedgerWorld == [inputs |-> {}, answers |-> {}, lifecycles |-> 0, direct |-> MaxOps, history |-> FALSE]

InitLedger == InitCommon /\ env = DefaultEnv /\ world = LedgerWorld

----------------------------------------------------------------------------
(* Steps shared by every ledger operation *)

\* `with _lock:` then lines 73-74 of _load_state_locked: mkdir, exists()
Enter(p, o, a) ==
    /\ pc[p] = "idle"
    /\ pc' = [pc EXCEPT ![p] = IF file.kind = "nofile" THEN "wt_open" ELSE "lock"]
    /\ op' = [op EXCEPT ![p] = o]
    /\ arg' = [arg EXCEPT ![p] = a]
    /\ ret' = [ret EXCEPT ![p] = RetNone]
    /\ fault' = [fault EXCEPT ![p] = "none"]
    /\ UNCHANGED <<fileVars, sideVars, st, buf, init0, grants, recSum, recCnt, hist>>

\* history: p's step changed the state a reader of the file gets
Touch(p) == dirty' = [dirty EXCEPT ![p] = @ \/ Parse(file') # Parse(file)]

\* line 75, first half: write_text opens the path for writing, which creates
\* the file or truncates the one that another process created meanwhile
WriteTextOpen(p) ==
    /\ pc[p] = "wt_open"
    /\ file' = EmptyFile
    /\ pc' = [pc EXCEPT ![p] = "wt_write"]
    /\ Touch(p)
    /\ UNCHANGED <<lockOwner, sideVars, op, arg, st, buf, ret, lifeVars, countVars>>

\* line 75, second half: write_text writes {} at offset 0 and closes
WriteTextWrite(p) ==
    /\ pc[p] = "wt_write"
    /\ file' = Overlay(BracesFile, file)
    /\ pc' = [pc EXCEPT ![p] = "lock"]
    /\ Touch(p)
    /\ UNCHANGED <<lockOwner, sideVars, op, arg, st, buf, ret, lifeVars, countVars>>

\* lines 76-89: open r+, blocking flock(LOCK_EX), read, parse, setdefault
LoadStateLocked(p) ==
    /\ pc[p] = "lock"
    /\ lockOwner = {}
    /\ IsObject(file)
    /\ lockOwner' = {p}
    /\ st' = [st EXCEPT ![p] = Parse(file)]
    /\ pc' = [pc EXCEPT ![p] = "loaded"]
    /\ UNCHANGED <<file, sideVars, op, arg, buf, ret, lifeVars, countVars, dirty>>

\* except branches of which that of acquire_slot is permissive too
FailureReturnAllOpen(o) ==
    IF o = "check_budget"
    THEN [active_calls |-> 0, max_concurrent |-> DEFAULT_MAX_CONCURRENT, kind |-> "budget",
          remaining |-> DEFAULT_TOKEN_BUDGET, allowed |-> TRUE, used |-> 0,
          limit |-> DEFAULT_TOKEN_BUDGET, fallback |-> TRUE]
    ELSE IF o = "acquire_slot" THEN RetBool(TRUE)
    ELSE IF o = "get_summary"
    THEN [total_tokens |-> 0, budget_limit |-> DEFAULT_TOKEN_BUDGET, kind |-> "summary",
          total_calls |-> 0, remaining_tokens |-> DEFAULT_TOKEN_BUDGET,
          by_agent |-> <<>>]
    ELSE RetNone

\* the value each operation returns from its `except Exception` branch
FailureReturn(o) ==
    IF o = "check_budget"
    THEN [active_calls |-> 0, max_concurrent |-> DEFAULT_MAX_CONCURRENT, kind |-> "budget",
          remaining |-> DEFAULT_TOKEN_BUDGET, allowed |-> TRUE, used |-> 0,
          limit |-> DEFAULT_TOKEN_BUDGET, fallback |-> TRUE]
    ELSE IF o = "acquire_slot" THEN RetBool(FALSE)
    ELSE IF o = "get_summary"
    THEN [total_tokens |-> 0, budget_limit |-> DEFAULT_TOKEN_BUDGET, kind |-> "summary",
          total_calls |-> 0, remaining_tokens |-> DEFAULT_TOKEN_BUDGET,
          by_agent |-> <<>>]
    ELSE RetNone

\* history: the direct operation of p returns r
Record(p, r) ==
    hist' = IF world.history /\ life[p].phase = "none"
            THEN Append(hist, [op |-> op[p], arg |-> arg[p], ret |-> r])
            ELSE hist

\* open() or flock() of lines 76-77 raises: fh is None (or closed by the
\* handler) and the operation returns through its except branch
LoadFails(p) ==
    /\ pc[p] = "lock"
    /\ ret' = [ret EXCEPT ![p] = FailureReturn(op[p])]
    /\ pc' = [pc EXCEPT ![p] = "idle"]
    /\ fault' = [fault EXCEPT ![p] = "open"]
    /\ Record(p, FailureReturn(op[p]))
    /\ UNCHANGED <<fileVars, sideVars, op, arg, st, buf, lifeVars, tallyVars, dirty>>

\* fh.read() of line 79 raises (an I/O error, or bytes that are not UTF-8):
\* line 82 replaces the state by {} and the defaults follow
ReadFails(p) ==
    /\ pc[p] = "lock"
    /\ lockOwner = {}
    /\ lockOwner' = {p}
    /\ st' = [st EXCEPT ![p] = Defaults]
    /\ pc' = [pc EXCEPT ![p] = "loaded"]
    /\ fault' = [fault EXCEPT ![p] = "read"]
    /\ UNCHANGED <<file, sideVars, op, arg, buf, ret, lifeVars, tallyVars, hist, dirty>>

\* lines 76-88 on JSON text that is no object: the lock is taken, json.loads
\* returns a list, number, string or None, and state.setdefault raises
\* AttributeError inside _load_state_locked, which never returns fh
SetdefaultRaises(p) ==
    /\ pc[p] = "lock"
    /\ lockOwner = {}
    /\ ~IsObject(file)
    /\ lockOwner' = {p}
    /\ pc' = [pc EXCEPT ![p] = "raised"]
    /\ fault' = [fault EXCEPT ![p] = "defaults"]
    /\ UNCHANGED <<file, sideVars, op, arg, st, buf, ret, lifeVars, tallyVars, hist, dirty>>

\* an except branch that returns while the handle opened at line 76 stays
\* open, and locked, behind it
ExceptReturnLeaked(p) ==
    /\ pc[p] = "raised"
    /\ ret' = [ret EXCEPT ![p] = FailureReturn(op[p])]
    /\ pc' = [pc EXCEPT ![p] = "idle"]
    /\ Record(p, FailureReturn(op[p]))
    /\ UNCHANGED <<fileVars, sideVars, op, arg, st, buf, lifeVars, tallyVars, fault, dirty>>

\* the except branch of the operation with fh = None: it returns its
\* failure value; the exception and with it the frame of _load_state_locked
\* are discarded on the way out, which closes the handle opened at line 76
\* and so drops its flock (CPython reference counting)
ExceptReturn(p) ==
    /\ pc[p] = "raised"
    /\ lockOwner = {p}
    /\ lockOwner' = {}
    /\ ret' = [ret EXCEPT ![p] = FailureReturn(op[p])]
    /\ pc' = [pc EXCEPT ![p] = "idle"]
    /\ Record(p, FailureReturn(op[p]))
    /\ UNCHANGED <<file, sideVars, op, arg, st, buf, lifeVars, tallyVars, fault, dirty>>

\* _save_state_locked lines 95-97 raise, before or after truncate(): the
\* finally of lines 98-100 unlocks and closes, and the operation returns
\* through its except branch
SaveRaises(p) ==
    /\ pc[p] = "loaded"
    /\ op[p] \in {"record_call", "acquire_slot", "release_slot", "reset_session"}
    /\ op[p] = "acquire_slot" => st[p].active_calls < st[p].max_concurrent
    /\ \E truncated \in BOOLEAN : file' = IF truncated THEN EmptyFile ELSE file
    /\ ret' = [ret EXCEPT ![p] = FailureReturn(op[p])]
    /\ pc' = [pc EXCEPT ![p] = "unlock"]
    /\ fault' = [fault EXCEPT ![p] = "save"]
    /\ Touch(p)
    /\ UNCHANGED <<lockOwner, sideVars, op, arg, st, buf, lifeVars, tallyVars, hist>>

\* _save_state_locked lines 95-97: seek(0), truncate(), write() into the
\* handle's buffer
SaveBuffered(p, s) ==
    /\ file' = EmptyFile
    /\ buf' = [buf EXCEPT ![p] = StateFile(s)]
    /\ st' = [st EXCEPT ![p] = s]
    /\ pc' = [pc EXCEPT ![p] = "unlock"]
    /\ Touch(p)

\* an operation that goes on to close and return without unlocking
FileUnlockSkipped(p) ==
    /\ pc[p] = "unlock"
    /\ lockOwner = {p}
    /\ pc' = [pc EXCEPT ![p] = "close"]
    /\ UNCHANGED <<fileVars, sideVars, op, arg, st, buf, ret, lifeVars, countVars, dirty>>

\* _file_unlock(fh): flock(LOCK_UN)
FileUnlock(p) ==
    /\ pc[p] = "unlock"
    /\ lockOwner = {p}
    /\ lockOwner' = {}
    /\ pc' = [pc EXCEPT ![p] = "close"]
    /\ UNCHANGED <<file, sideVars, op, arg, st, buf, ret, lifeVars, countVars, dirty>>

\* fh.close(): flushes the buffered text at offset 0, then the operation
\* returns and leaves `with _lock`
CloseAndReturn(p) ==
    /\ pc[p] = "close"
    /\ file' = IF buf[p].kind = "nobuf" THEN file ELSE Overlay(buf[p], file)
    /\ buf' = [buf EXCEPT ![p] = NoBuf]
    /\ st' = [st EXCEPT ![p] = <<>>]
    /\ pc' = [pc EXCEPT ![p] = "idle"]
    /\ LET direct == life[p].phase = "none"
       IN  /\ grants' = IF direct /\ op[p] = "acquire_slot" /\ ret[p] = RetBool(TRUE)
                        THEN grants + 1 ELSE grants
           /\ recSum' = IF direct /\ op[p] = "record_call" THEN recSum + arg[p].tokens ELSE recSum
           /\ recCnt' = IF direct /\ op[p] = "record_call" THEN recCnt + 1 ELSE recCnt
    /\ Record(p, ret[p])
    /\ Touch(p)
    /\ UNCHANGED <<lockOwner, sideVars, op, arg, ret, lifeVars, nops, nlife, init0, invoked, fault>>

----------------------------------------------------------------------------
(* The body of each operation, run with the state loaded and the lock held *)

\* check_budget lines 112-121
CheckBudgetBody(p) ==
    /\ pc[p] = "loaded" /\ op[p] = "check_budget"
    /\ ret' = [ret EXCEPT ![p] = CheckBudgetResult(st[p], arg[p].tokens)]
    /\ pc' = [pc EXCEPT ![p] = "unlock"]
    /\ UNCHANGED <<fileVars, sideVars, op, arg, st, buf, lifeVars, countVars, dirty>>

\* record_call that appends the record and leaves total_tokens as it was
RecordCallBodyNoTotal(p) ==
    /\ pc[p] = "loaded" /\ op[p] = "record_call"
    /\ SaveBuffered(p, [st[p] EXCEPT !.calls = Append(@, arg[p])])
    /\ UNCHANGED <<lockOwner, sideVars, op, arg, ret, lifeVars, countVars>>

\* record_call lines 147-154
RecordCallBody(p) ==
    /\ pc[p] = "loaded" /\ op[p] = "record_call"
    /\ SaveBuffered(p, [st[p] EXCEPT !.total_tokens = @ + arg[p].tokens,
                                     !.calls = Append(@, arg[p])])
    /\ UNCHANGED <<lockOwner, sideVars, op, arg, ret, lifeVars, countVars>>

\* get_summary lines 233-242
GetSummaryBody(p) ==
    /\ pc[p] = "loaded" /\ op[p] = "get_summary"
    /\ ret' = [ret EXCEPT ![p] = Summary(st[p])]
    /\ pc' = [pc EXCEPT ![p] = "unlock"]
    /\ UNCHANGED <<fileVars, sideVars, op, arg, st, buf, lifeVars, countVars, dirty>>

\* the test of acquire_slot line 170
SlotFree(s) == s.active_calls < s.max_concurrent

\* acquire_slot lines 170-173
AcquireSlotFull(p) ==
    /\ pc[p] = "loaded" /\ op[p] = "acquire_slot"
    /\ ~SlotFree(st[p])
    /\ ret' = [ret EXCEPT ![p] = RetBool(FALSE)]
    /\ pc' = [pc EXCEPT ![p] = "unlock"]
    /\ UNCHANGED <<fileVars, sideVars, op, arg, st, buf, lifeVars, countVars, dirty>>

\* acquire_slot lines 174-176
AcquireSlotTake(p) ==
    /\ pc[p] = "loaded" /\ op[p] = "acquire_slot"
    /\ SlotFree(st[p])
    /\ SaveBuffered(p, [st[p] EXCEPT !.active_calls = @ + 1])
    /\ ret' = [ret EXCEPT ![p] = RetBool(TRUE)]
    /\ UNCHANGED <<lockOwner, sideVars, op, arg, lifeVars, countVars>>

\* release_slot without the floor of line 193
ReleasedUnfloored(s) == [s EXCEPT !.active_calls = @ - 1]

\* release_slot line 193
Released(s) == [s EXCEPT !.active_calls = IF @ - 1 > 0 THEN @ - 1 ELSE 0]

\* release_slot lines 192-194
ReleaseSlotBody(p) ==
    /\ pc[p] = "loaded" /\ op[p] = "release_slot"
    /\ SaveBuffered(p, Released(st[p]))
    /\ UNCHANGED <<lockOwner, sideVars, op, arg, ret, lifeVars, countVars>>

\* reset_session that leaves active_calls as it found it
ResetSessionKeepsSlots(p) ==
    /\ pc[p] = "loaded" /\ op[p] = "reset_session"
    /\ SaveBuffered(p, [Defaults EXCEPT !.active_calls = st[p].active_calls])
    /\ UNCHANGED <<lockOwner, sideVars, op, arg, ret, lifeVars, countVars>>

\* reset_session lines 209-217
ResetSessionBody(p) ==
    /\ pc[p] = "loaded" /\ op[p] = "reset_session"
    /\ SaveBuffered(p, Defaults)
    /\ UNCHANGED <<lockOwner, sideVars, op, arg, ret, lifeVars, countVars>>

----------------------------------------------------------------------------
(* Ledger operations invoked directly by a process *)

Direct(p, o, a) ==
    /\ nops < world.direct
    /\ life[p].phase = "none"
    /\ Enter(p, o, a)
    /\ nops' = nops + 1
    /\ invoked' = invoked \cup {o}
    /\ dirty' = [dirty EXCEPT ![p] = FALSE]
    /\ life' = [life EXCEPT ![p] = NoLife]
    /\ UNCHANGED <<auditLog, nlife>>

CallAcquireSlot(p) == \E a \in Agents : Direct(p, "acquire_slot", [tokens |-> 0, agent |-> a])
CallReleaseSlot(p) == Direct(p, "release_slot", NoArg)
CallRecordCall(p) ==
    \E a \in {[tokens |-> 1000, agent |-> "codex"], [tokens |-> 500, agent |-> "gemini"]} :
        Direct(p, "record_call", a)
CallResetSession(p) == Direct(p, "reset_session", NoArg)
CallGetSummary(p) == Direct(p, "get_summary", NoArg)
CallCheckBudget(p) ==
    \E e \in {0, 5000, 10000} : Direct(p, "check_budget", [tokens |-> e, agent |-> "codex"])

NextLedger ==
    \E p \in Procs :
        \/ CallAcquireSlot(p)
        \/ CallReleaseSlot(p)
        \/ CallRecordCall(p)
        \/ CallResetSession(p)
        \/ WriteTextOpen(p)
        \/ WriteTextWrite(p)
        \/ LoadStateLocked(p)
        \/ RecordCallBody(p)
        \/ AcquireSlotFull(p)
        \/ AcquireSlotTake(p)
        \/ ReleaseSlotBody(p)
        \/ ResetSessionBody(p)
        \/ FileUnlock(p)
        \/ CloseAndReturn(p)

SpecLedger == InitLedger /\ [][NextLedger]_vars

\* acquire_slot and release_slot only, on a ledger without records
InitSlots == InitLedger /\ Parse(file).calls = <<>>

NextSlots ==
    \E p \in Procs :
        \/ CallAcquireSlot(p)
        \/ CallReleaseSlot(p)
        \/ WriteTextOpen(p)
        \/ WriteTextWrite(p)
        \/ LoadStateLocked(p)
        \/ AcquireSlotFull(p)
        \/ AcquireSlotTake(p)
        \/ ReleaseSlotBody(p)
        \/ FileUnlock(p)
        \/ CloseAndReturn(p)

SpecSlots == InitSlots /\ [][NextSlots]_vars

----------------------------------------------------------------------------
(* One process: a session is used, reset and used again *)

\* up to MaxOps operations, then reset_session, get_summary, check_budget and
\* one acquire_slot more than the configured max_concurrent
SessionWorld ==
    [inputs |-> {}, answers |-> {}, lifecycles |-> 0,
     direct |-> MaxOps + 3 + MaxConcurrentCfg + 1, history |-> TRUE]

\* the operation that returned last
LastOp == IF hist = <<>> THEN "none" ELSE hist[Len(hist)].op

\* the file of an earlier session, whose limits (ORCHESTRA_TOKEN_BUDGET,
\* ORCHESTRA_MAX_CONCURRENT of the process that wrote it) can differ from
\* the defaults of this process
InitSession ==
    /\ DEFAULT_MAX_CONCURRENT \in 1..MaxConcurrentCfg
    /\ file \in {NoFile} \cup
                 {StateFile([s EXCEPT !.budget_limit = b]) :
                      s \in UNION {InitStates(m) : m \in 1..MaxConcurrentCfg},
                      b \in {DEFAULT_TOKEN_BUDGET - 1000, DEFAULT_TOKEN_BUDGET}}
    /\ init0 = Parse(file)
    /\ InitProgram
    /\ env = DefaultEnv
    /\ world = SessionWorld

NextSession ==
    \E p \in {1} :
        \/ "reset_session" \notin invoked /\ nops < MaxOps /\ Direct(p, "acquire_slot", NoArg)
        \/ "reset_session" \notin invoked /\ nops < MaxOps /\ CallReleaseSlot(p)
        \/ "reset_session" \notin invoked /\ nops < MaxOps /\ CallRecordCall(p)
        \/ "reset_session" \notin invoked /\ CallResetSession(p)
        \/ LastOp = "reset_session" /\ CallGetSummary(p)
        \/ LastOp = "get_summary" /\ Direct(p, "check_budget", NoArg)
        \/ LastOp \in {"check_budget", "acquire_slot"} /\ "reset_session" \in invoked
               /\ Direct(p, "acquire_slot", NoArg)
        \/ WriteTextOpen(p)
        \/ WriteTextWrite(p)
        \/ LoadStateLocked(p)
        \/ CheckBudgetBody(p)
        \/ RecordCallBody(p)
        \/ GetSummaryBody(p)
        \/ AcquireSlotFull(p)
        \/ AcquireSlotTake(p)
        \/ ReleaseSlotBody(p)
        \/ ResetSessionBody(p)
        \/ FileUnlock(p)
        \/ CloseAndReturn(p)

SpecSession == InitSession /\ [][NextSession]_vars

----------------------------------------------------------------------------
(* One process on a backing file whose content is no ledger state: nothing, *)
(* text that is no JSON, or JSON that is no object ([], null, a number)     *)

InitCorrupt ==
    /\ DEFAULT_MAX_CONCURRENT \in 1..MaxConcurrentCfg
    /\ file \in {EmptyFile, CorruptFile(40), NonObjectFile}
    /\ init0 = Parse(file)
    /\ InitProgram
    /\ env = DefaultEnv
    /\ world = LedgerWorld

NextCorrupt ==
    \E p \in {1} :
        \/ CallAcquireSlot(p)
        \/ CallReleaseSlot(p)
        \/ CallRecordCall(p)
        \/ CallResetSession(p)
        \/ CallGetSummary(p)
        \/ CallCheckBudget(p)
        \/ LoadStateLocked(p)
        \/ SetdefaultRaises(p)
        \/ ExceptReturn(p)
        \/ CheckBudgetBody(p)
        \/ RecordCallBody(p)
        \/ GetSummaryBody(p)
        \/ AcquireSlotFull(p)
        \/ AcquireSlotTake(p)
        \/ ReleaseSlotBody(p)
        \/ ResetSessionBody(p)
        \/ FileUnlock(p)
        \/ CloseAndReturn(p)

SpecCorrupt == InitCorrupt /\ [][NextCorrupt]_vars

----------------------------------------------------------------------------
(* Several processes on a ledger whose stored limits were written by a      *)
(* reset_session of a process configured with other defaults                *)

InitLimits ==
    /\ DEFAULT_MAX_CONCURRENT \in 1..MaxConcurrentCfg
    /\ file \in {StateFile([s EXCEPT !.budget_limit = b]) :
                      s \in UNION {InitStates(m) : m \in 1..MaxConcurrentCfg},
                      b \in {DEFAULT_TOKEN_BUDGET - 1000, DEFAULT_TOKEN_BUDGET}}
    /\ init0 = Parse(file)
    /\ InitProgram
    /\ env = DefaultEnv
    /\ world = LedgerWorld

NextLimits ==
    \E p \in Procs :
        \/ Direct(p, "acquire_slot", NoArg)
        \/ Direct(p, "check_budget", NoArg)
        \/ CallReleaseSlot(p)
        \/ CallGetSummary(p)
        \/ LoadStateLocked(p)
        \/ CheckBudgetBody(p)
        \/ GetSummaryBody(p)
        \/ AcquireSlotFull(p)
        \/ AcquireSlotTake(p)
        \/ ReleaseSlotBody(p)
        \/ FileUnlock(p)
        \/ CloseAndReturn(p)

SpecLimits == InitLimits /\ [][NextLimits]_vars

----------------------------------------------------------------------------
(* One process, every ledger operation, with steps that raise *)

FailWorld == [inputs |-> {}, answers |-> {}, lifecycles |-> 0, direct |-> 2, history |-> FALSE]

\* the ledger file: absent, left by a previous run, or damaged from outside
InitFail ==
    /\ DEFAULT_MAX_CONCURRENT \in 1..MaxConcurrentCfg
    /\ file \in InitFiles(DEFAULT_MAX_CONCURRENT) \cup {CorruptFile(40), NonObjectFile}
    /\ init0 = Parse(file)
    /\ InitProgram
    /\ env = DefaultEnv
    /\ world = FailWorld

NextFail ==
    \E p \in {1} :
        \/ CallCheckBudget(p)
        \/ CallRecordCall(p)
        \/ CallAcquireSlot(p)
        \/ CallReleaseSlot(p)
        \/ CallResetSession(p)
        \/ CallGetSummary(p)
        \/ WriteTextOpen(p)
        \/ WriteTextWrite(p)
        \/ LoadStateLocked(p)
        \/ LoadFails(p)
        \/ ReadFails(p)
        \/ SetdefaultRaises(p)
        \/ ExceptReturn(p)
        \/ SaveRaises(p)
        \/ CheckBudgetBody(p)
        \/ RecordCallBody(p)
        \/ AcquireSlotFull(p)
        \/ AcquireSlotTake(p)
        \/ ReleaseSlotBody(p)
        \/ ResetSessionBody(p)
        \/ GetSummaryBody(p)
        \/ FileUnlock(p)
        \/ CloseAndReturn(p)

SpecFail == InitFail /\ [][NextFail]_vars

----------------------------------------------------------------------------
(* resilience.py *)

\* An error text is [name, markers]: markers are the substrings of the
\* lower-cased text that classify_failure looks for.
Err(name, markers) == [name |-> name, markers |-> markers]
ErrNotInstalled == Err("not_installed", {"not_installed"})
ErrContextBlocked == Err("context_blocked", {})
ErrTimeout == Err("timeout", {"timeout"})
ErrEmptyOutput == Err("empty_output", {})
ErrRateLimit == Err("rate limit exceeded", {"rate"})
ErrUnauthorized == Err("401 unauthorized", {"auth", "unauthorized"})
ErrBudgetExceeded == Err("budget_exceeded", {})
ErrConcurrencyLimit == Err("concurrency_limit", {})

\* a classification that looks at the return code before the timeout and
\* rate-limit markers
classify_failure_code_first(error, returncode) ==
    IF error.markers \cap {"not_installed", "not found"} # {} THEN "permanent"
    ELSE IF error.markers \cap {"auth", "unauthorized", "forbidden"} # {} THEN "permanent"
    ELSE IF returncode > 128 THEN "permanent"
    ELSE IF "timeout" \in error.markers THEN "timeout"
    ELSE IF error.markers \cap {"rate", "429", "quota"} # {} THEN "rate_limit"
    ELSE "transient"

\* classify_failure(error, returncode); returncode 0 stands for None
classify_failure(error, returncode) ==
    IF error.markers \cap {"not_installed", "not found"} # {} THEN "permanent"
    ELSE IF error.markers \cap {"auth", "unauthorized", "forbidden"} # {} THEN "permanent"
    ELSE IF "timeout" \in error.markers THEN "timeout"
    ELSE IF error.markers \cap {"rate", "429", "quota"} # {} THEN "rate_limit"
    ELSE IF returncode > 128 THEN "permanent"
    ELSE "transient"

Min(a, b) == IF a <= b THEN a ELSE b

RECURSIVE Pow2(_)
Pow2(n) == IF n <= 0 THEN 1 ELSE 2 * Pow2(n - 1)

\* a wait that is tripled for rate limits and not capped again
BackoffDelayUncapped(attempts, failure_type, base_delay, max_delay) ==
    LET delay == Min(base_delay * Pow2(attempts - 1), max_delay)
    IN  IF failure_type = "rate_limit" THEN delay * 3 ELSE delay

\* retry_with_backoff lines 109-111: the wait after the attempts-th failure
BackoffDelay(attempts, failure_type, base_delay, max_delay) ==
    LET delay == Min(base_delay * Pow2(attempts - 1), max_delay)
    IN  IF failure_type = "rate_limit" THEN Min(delay * 3, max_delay) ELSE delay

\* the arguments call_codex_safe and call_gemini_safe pass, and the defaults
MAX_RETRIES == 1
BASE_DELAY == 2
MAX_DELAY == 30
\* timeout_multiplier 1.5 as a fraction
TIMEOUT_MULTIPLIER == <<3, 2>>

\* fallback_to_orchestrator lines 139-143; redact_raises: the import of
\* context_guard or redact_secrets raises
SafeTask(original_task, redact_raises) ==
    IF ~redact_raises THEN redact_secrets(Take(original_task, 200))
    ELSE IF CLen(original_task) > 50 THEN Take(original_task, 50) \o <<Run(".", 3)>>
    ELSE original_task

\* fallback_to_orchestrator
fallback_to_orchestrator(agent_name, original_task, error_info, redact_raises) ==
    [remaining |-> 0, fallback |-> TRUE, success |-> FALSE,
     error |-> error_info.error, failure_type |-> error_info.failure_type,
     attempts |-> 0,
     original_task |-> SafeTask(original_task, redact_raises), output_chars |-> 0]

----------------------------------------------------------------------------
(* The call lifecycle: call_codex_safe / call_gemini_safe *)

\* check_budget(estimated_tokens=...) of codex_wrapper line 222, gemini_wrapper line 119
EstimatedTokens(agent) == IF agent = "codex" THEN 10000 ELSE 5000
\* the floor of record_call's token cost, codex_wrapper line 260, gemini_wrapper line 155
TokenFloor(agent) == IF agent = "codex" THEN 1000 ELSE 500

\* codex_wrapper line 57: f"[mode: {mode}]\n{context}"; gemini sends the query
Prompt(agent, content) ==
    IF agent = "codex"
    THEN <<Run("[mode:", 6), Sp(1), Run("review]", 7), Nl(1)>> \o content
    ELSE content

\* codex_wrapper line 252: f"[{mode}] {context[:100]}"; gemini_wrapper line 148
OriginalTask(agent, content) ==
    IF agent = "codex"
    THEN <<Run("[review]", 8), Sp(1)>> \o Take(content, 100)
    ELSE Take(content, 100)

Failure(error) == [NoResult EXCEPT !.error = error]

SetLife(p, l) == life' = [life EXCEPT ![p] = l]

\* the process is between two ledger operations of its lifecycle
At(p, phase) == life[p].phase = phase /\ pc[p] = "idle"

\* entry of call_*_safe up to the call of check_budget
LifecycleStart(p, agent, content, files) ==
    /\ nlife < world.lifecycles
    /\ At(p, "none")
    /\ nlife' = nlife + 1
    /\ SetLife(p, [NoLife EXCEPT !.phase = "budget", !.agent = agent,
                                 !.content = content, !.files = files])
    /\ Enter(p, "check_budget", [tokens |-> EstimatedTokens(agent), agent |-> agent])
    /\ dirty' = [dirty EXCEPT ![p] = FALSE]
    /\ UNCHANGED <<auditLog, nops, invoked>>

\* codex_wrapper lines 223-228: return budget_exceeded
BudgetExceeded(p) ==
    /\ At(p, "budget")
    /\ ~ret[p].allowed
    /\ SetLife(p, [life[p] EXCEPT !.phase = "none", !.returned = TRUE,
                       !.result = [Failure(ErrBudgetExceeded) EXCEPT !.remaining = ret[p].remaining]])
    /\ UNCHANGED <<fileVars, sideVars, opVars, auditLog, countVars, dirty>>

\* codex_wrapper line 230: call acquire_slot
AcquireCall(p) ==
    /\ At(p, "budget")
    /\ ret[p].allowed
    /\ SetLife(p, [life[p] EXCEPT !.phase = "acquire", !.allowed = TRUE, !.n_acquire = @ + 1])
    /\ Enter(p, "acquire_slot", [tokens |-> 0, agent |-> life[p].agent])
    /\ UNCHANGED <<auditLog, nops, nlife, invoked, dirty>>

\* codex_wrapper lines 230-235: return concurrency_limit
ConcurrencyLimit(p) ==
    /\ At(p, "acquire")
    /\ ret[p] = RetBool(FALSE)
    /\ SetLife(p, [life[p] EXCEPT !.phase = "none", !.returned = TRUE,
                                  !.result = Failure(ErrConcurrencyLimit)])
    /\ UNCHANGED <<fileVars, sideVars, opVars, auditLog, countVars, dirty>>

\* codex_wrapper lines 237-247: the slot is held, retry_with_backoff starts
SlotAcquired(p) ==
    /\ At(p, "acquire")
    /\ ret[p] = RetBool(TRUE)
    /\ SetLife(p, [life[p] EXCEPT !.phase = "attempt", !.acquired = TRUE])
    /\ UNCHANGED <<fileVars, sideVars, opVars, auditLog, countVars, dirty>>

\* a lifecycle that falls back after every failure of the retry loop
AfterRetryAnyFailure(l, r, redact_raises) ==
    [l EXCEPT !.phase = "finally",
              !.result = IF ~r.success
                         THEN fallback_to_orchestrator(l.agent, OriginalTask(l.agent, l.content),
                                                       r, redact_raises)
                         ELSE r]

\* codex_wrapper lines 251-254 after the retry loop ended with result r
AfterRetry(l, r, redact_raises) ==
    [l EXCEPT !.phase = "finally",
              !.result = IF ~r.success /\ r.failure_type = "permanent"
                         THEN fallback_to_orchestrator(l.agent, OriginalTask(l.agent, l.content),
                                                       r, redact_raises)
                         ELSE r]

\* retry_with_backoff lines 85-116 for one attempt of l that returned r
RetryStep(l, r, redact_raises) ==
    LET attempts == l.attempts + 1
        failure_type == classify_failure(r.error, 0)
        l1 == [l EXCEPT !.attempts = attempts, !.fn_calls = @ + 1]
    IN  IF r.success THEN AfterRetry(l1, [r EXCEPT !.attempts = attempts], redact_raises)
        ELSE IF failure_type = "permanent" \/ attempts > MAX_RETRIES
        THEN AfterRetry(l1, [r EXCEPT !.attempts = attempts, !.failure_type = failure_type],
                        redact_raises)
        ELSE [l1 EXCEPT !.phase = "sleep",
                        !.delays = Append(@, BackoffDelay(attempts, failure_type, BASE_DELAY, MAX_DELAY)),
                        !.factor = IF failure_type = "timeout"
                                   THEN <<@[1] * TIMEOUT_MULTIPLIER[1], @[2] * TIMEOUT_MULTIPLIER[2]>>
                                   ELSE @]

\* history: one attempt of l, with the guard's decision g, whether the
\* delegate process was started and on which input, and the attempt's result r
Tried(l, g, contacted, sent, r) ==
    [l EXCEPT !.trace = Append(@, [verdict |-> g.verdict, success |-> r.success,
                                   error |-> r.error.name, contacted |-> contacted,
                                   sent |-> sent, guarded |-> g.content])]

\* call_codex lines 51-55 / call_gemini lines 52-58: the CLI is not found
AttemptNotInstalled(p) ==
    /\ At(p, "attempt")
    /\ \E redact_raises \in BOOLEAN :
         SetLife(p, RetryStep(Tried(life[p], NoGuard, FALSE, <<>>, Failure(ErrNotInstalled)),
                              Failure(ErrNotInstalled), redact_raises))
    /\ UNCHANGED <<fileVars, sideVars, opVars, auditLog, countVars, dirty>>

\* what the guard decides for the prompt of lifecycle l
GuardOf(l) == guard_context(Prompt(l.agent, l.content), l.files, env)

\* call_codex lines 60-63: guard_context raises ContextGuardError
AttemptBlocked(p) ==
    /\ At(p, "attempt")
    /\ GuardOf(life[p]).verdict = "Rejected"
    /\ auditLog' = auditLog \o GuardOf(life[p]).audit
    /\ SetLife(p, RetryStep(Tried(life[p], GuardOf(life[p]), FALSE, <<>>, Failure(ErrContextBlocked)),
                            Failure(ErrContextBlocked), FALSE))
    /\ UNCHANGED <<fileVars, sideVars, opVars, countVars, dirty>>

\* what the delegate process can answer: a result or an error
DelegateAnswers ==
    {[NoResult EXCEPT !.success = TRUE, !.output_chars = n] : n \in {0, 8000}}
    \cup {Failure(e) : e \in {ErrTimeout, ErrEmptyOutput, ErrRateLimit, ErrUnauthorized}}

\* a delegate that is given the caller's prompt instead of the guard's output
DelegateInputUnguarded(prompt, g) == prompt

\* what the delegate is given on stdin: call_codex lines 61 and 78,
\* prompt = guard_context(prompt, ...) and input=prompt
DelegateInput(prompt, g) == g.content

\* call_codex lines 60-205: the guard returns, the delegate is run on its
\* output and answers
AttemptDelegate(p) ==
    /\ At(p, "attempt")
    /\ GuardOf(life[p]).verdict # "Rejected"
    /\ auditLog' = auditLog \o GuardOf(life[p]).audit
    /\ \E r \in world.answers, redact_raises \in BOOLEAN :
         SetLife(p, RetryStep(Tried(life[p], GuardOf(life[p]), TRUE,
                                    DelegateInput(Prompt(life[p].agent, life[p].content),
                                                  GuardOf(life[p])), r),
                              r, redact_raises))
    /\ UNCHANGED <<fileVars, sideVars, opVars, countVars, dirty>>

\* an exception that leaves call_*_safe without running its finally block
AttemptRaisesUnreleased(p) ==
    /\ At(p, "attempt")
    /\ SetLife(p, [life[p] EXCEPT !.phase = "none", !.returned = TRUE, !.fn_calls = @ + 1,
                                  !.result = Failure(Err("exception", {}))])
    /\ UNCHANGED <<fileVars, sideVars, opVars, auditLog, countVars, dirty>>

\* codex_wrapper lines 248-249: an exception escapes retry_with_backoff
AttemptRaises(p) ==
    /\ At(p, "attempt")
    /\ \E redact_raises \in BOOLEAN :
         SetLife(p, AfterRetry([life[p] EXCEPT !.fn_calls = @ + 1],
                               [Failure(Err("exception", {})) EXCEPT !.failure_type = "permanent"],
                               redact_raises))
    /\ UNCHANGED <<fileVars, sideVars, opVars, auditLog, countVars, dirty>>

\* retry_with_backoff line 116: time.sleep(delay), then the next attempt
Sleep(p) ==
    /\ At(p, "sleep")
    /\ SetLife(p, [life[p] EXCEPT !.phase = "attempt"])
    /\ UNCHANGED <<fileVars, sideVars, opVars, auditLog, countVars, dirty>>

\* a token cost without its floor
TokenCostUnfloored(l) == l.result.output_chars \div 4

\* codex_wrapper line 259: len(str(raw_output or summary)) // 4, floored
TokenCost(l) ==
    LET tokens == l.result.output_chars \div 4
    IN  IF tokens > TokenFloor(l.agent) THEN tokens ELSE TokenFloor(l.agent)

\* what is kept of a result once `return result` (line 254) has handed it
\* to the caller
Outcome(r) == [NoResult EXCEPT !.success = r.success, !.fallback = r.fallback]

\* finally, codex_wrapper lines 257-260: call record_call; the frames of
\* retry_with_backoff and call_codex are gone
RecordCallCall(p) ==
    /\ At(p, "finally")
    /\ SetLife(p, [life[p] EXCEPT !.phase = "record", !.n_record = @ + 1,
                                  !.recorded = TokenCost(life[p]),
                                  !.attempts = 0, !.factor = <<1, 1>>, !.delays = <<>>,
                                  !.trace = <<>>,
                                  !.result = Outcome(@)])
    /\ Enter(p, "record_call", [tokens |-> TokenCost(life[p]), agent |-> life[p].agent])
    /\ UNCHANGED <<auditLog, nops, nlife, invoked, dirty>>

\* finally, codex_wrapper line 263: call release_slot
ReleaseSlotCall(p) ==
    /\ At(p, "record")
    /\ SetLife(p, [life[p] EXCEPT !.phase = "release", !.n_release = @ + 1])
    /\ Enter(p, "release_slot", NoArg)
    /\ UNCHANGED <<auditLog, nops, nlife, invoked, dirty>>

\* release_slot returned: call_*_safe returns result to its caller and its
\* arguments go out of scope
LifecycleReturn(p) ==
    /\ At(p, "release")
    /\ SetLife(p, [life[p] EXCEPT !.phase = "none", !.returned = TRUE,
                                  !.content = <<>>, !.files = NoFiles])
    /\ UNCHANGED <<fileVars, sideVars, opVars, auditLog, countVars, dirty>>

\* the contents and provenances the lifecycles are started with
SecretText == <<Kw, Sp(1), Eq, Sp(1), Qt, Run("a", 21), Qt>>
PlainText == <<Run("x", 4)>>
ProjectFile == [up |-> 0, base |-> "project", name |-> "main.py"]

\* lifecycles of several processes: ORCHESTRA_MAX_CONCURRENT unset, content
\* that passes the guard or is of unknown origin, a delegate that answers or
\* times out
LifeWorld ==
    [inputs |-> {[content |-> PlainText, files |-> f] : f \in {Files(<<ProjectFile>>), NoFiles}},
     answers |-> {[NoResult EXCEPT !.success = TRUE], Failure(ErrTimeout)},
     lifecycles |-> MaxLife, direct |-> 0, history |-> FALSE]

InitLife ==
    /\ InitCommon
    /\ DEFAULT_MAX_CONCURRENT = 1
    /\ env = DefaultEnv
    /\ world = LifeWorld

NextLife ==
    \E p \in Procs :
        \/ \E a \in Agents, i \in world.inputs : LifecycleStart(p, a, i.content, i.files)
        \/ BudgetExceeded(p)
        \/ AcquireCall(p)
        \/ ConcurrencyLimit(p)
        \/ SlotAcquired(p)
        \/ AttemptNotInstalled(p)
        \/ AttemptBlocked(p)
        \/ AttemptDelegate(p)
        \/ AttemptRaises(p)
        \/ Sleep(p)
        \/ RecordCallCall(p)
        \/ ReleaseSlotCall(p)
        \/ LifecycleReturn(p)
        \/ WriteTextOpen(p)
        \/ WriteTextWrite(p)
        \/ LoadStateLocked(p)
        \/ CheckBudgetBody(p)
        \/ RecordCallBody(p)
        \/ AcquireSlotFull(p)
        \/ AcquireSlotTake(p)
        \/ ReleaseSlotBody(p)
        \/ FileUnlock(p)
        \/ CloseAndReturn(p)

SpecLife == InitLife /\ [][NextLife]_vars

\* lifecycles on a ledger that reset_session has just written, or whose file
\* is not there yet; the delegate
\* prints nothing, or 2000004 characters (result.stdout is kept whole:
\* codex_wrapper lines 115 and 179), or times out
QuotaWorld ==
    [LifeWorld EXCEPT !.answers =
        {[NoResult EXCEPT !.success = TRUE, !.output_chars = n] : n \in {0, 2000004}}
        \cup {Failure(ErrTimeout)}]

InitQuota ==
    /\ DEFAULT_MAX_CONCURRENT = 1
    /\ file \in {NoFile, StateFile(Defaults)}
    /\ init0 = Parse(file)
    /\ InitProgram
    /\ env = DefaultEnv
    /\ world = QuotaWorld

SpecQuota == InitQuota /\ [][NextLife]_vars

----------------------------------------------------------------------------
(* One lifecycle on its own, over every ledger state, configuration, input  *)
(* and delegate answer                                                      *)

OutsideFile == [up |-> 1, base |-> "project", name |-> "main.py"]
BlockedFile == [up |-> 0, base |-> "project", name |-> ".env.production.local"]

CallWorld ==
    [inputs |-> {[content |-> c, files |-> f] : c \in {PlainText, SecretText},
                               f \in {NoFiles, Files(<<ProjectFile>>),
                                      Files(<<ProjectFile, OutsideFile>>),
                                      Files(<<BlockedFile>>)}},
     answers |-> DelegateAnswers,
     lifecycles |-> 1, direct |-> 0, history |-> FALSE]

CallEnvs ==
    {[policy |-> po, project_dir |-> TRUE, extra |-> FALSE, strict |-> s] :
        po \in ValidPolicies \cup {"redcat"}, s \in BOOLEAN}

InitCall ==
    /\ InitCommon
    /\ env \in CallEnvs
    /\ world = CallWorld

NextCall ==
    \E p \in {1} :
        \/ \E a \in Agents, i \in world.inputs : LifecycleStart(p, a, i.content, i.files)
        \/ BudgetExceeded(p)
        \/ AcquireCall(p)
        \/ ConcurrencyLimit(p)
        \/ SlotAcquired(p)
        \/ AttemptNotInstalled(p)
        \/ AttemptBlocked(p)
        \/ AttemptDelegate(p)
        \/ AttemptRaises(p)
        \/ Sleep(p)
        \/ RecordCallCall(p)
        \/ ReleaseSlotCall(p)
        \/ LifecycleReturn(p)
        \/ WriteTextOpen(p)
        \/ WriteTextWrite(p)
        \/ LoadStateLocked(p)
        \/ LoadFails(p)
        \/ CheckBudgetBody(p)
        \/ RecordCallBody(p)
        \/ AcquireSlotFull(p)
        \/ AcquireSlotTake(p)
        \/ ReleaseSlotBody(p)
        \/ FileUnlock(p)
        \/ CloseAndReturn(p)

SpecCall == InitCall /\ [][NextCall]_vars

----------------------------------------------------------------------------
(* One lifecycle among ledger operations that other processes invoke       *)

MixedWorld ==
    [inputs |-> {[content |-> PlainText, files |-> Files(<<ProjectFile>>)]},
     answers |-> {[NoResult EXCEPT !.success = TRUE]},
     lifecycles |-> 1, direct |-> MaxOps, history |-> FALSE]

InitMixed ==
    /\ InitCommon
    /\ DEFAULT_MAX_CONCURRENT = 1
    /\ env = DefaultEnv
    /\ world = MixedWorld

NextMixed ==
    \E p \in Procs :
        \/ LifecycleStart(p, "codex", PlainText, Files(<<ProjectFile>>))
        \/ BudgetExceeded(p)
        \/ AcquireCall(p)
        \/ ConcurrencyLimit(p)
        \/ SlotAcquired(p)
        \/ AttemptDelegate(p)
        \/ RecordCallCall(p)
        \/ ReleaseSlotCall(p)
        \/ LifecycleReturn(p)
        \/ CallAcquireSlot(p)
        \/ CallRecordCall(p)
        \/ WriteTextOpen(p)
        \/ WriteTextWrite(p)
        \/ LoadStateLocked(p)
        \/ CheckBudgetBody(p)
        \/ RecordCallBody(p)
        \/ AcquireSlotFull(p)
        \/ AcquireSlotTake(p)
        \/ ReleaseSlotBody(p)
        \/ FileUnlock(p)
        \/ CloseAndReturn(p)

SpecMixed == InitMixed /\ [][NextMixed]_vars

----------------------------------------------------------------------------
(* fallback_to_orchestrator applied on its own *)

InitFunction ==
    /\ InitCommon
    /\ DEFAULT_MAX_CONCURRENT = 1
    /\ file = NoFile
    /\ world = [inputs |-> {}, answers |-> {}, lifecycles |-> 0, direct |-> 0, history |-> FALSE]

\* tasks: n characters, then token=<m characters>, then a blank and a word
FallbackTask(n, m) ==
    (IF n = 0 THEN <<>> ELSE <<Run("x", n)>>) \o <<Kw, Eq, Run("a", m), Sp(1), Run("y", 4)>>

FallbackTasks == {FallbackTask(n, m) : n \in {0, 30, 39, 100, 186, 190}, m \in {4, 8, 21}}

ErrorInfos ==
    {[Failure(e) EXCEPT !.failure_type = "permanent"] : e \in {ErrNotInstalled, ErrUnauthorized}}

CallFallback ==
    \E agent_name \in Agents, original_task \in FallbackTasks,
       error_info \in ErrorInfos, redact_raises \in BOOLEAN :
        /\ call' = [fn |-> "fallback_to_orchestrator",
                    args |-> [original_task |-> original_task, redact_raises |-> redact_raises,
                              agent_name |-> agent_name, error_info |-> error_info],
                    out |-> fallback_to_orchestrator(agent_name, original_task, error_info,
                                                     redact_raises)]
        /\ UNCHANGED <<fileVars, DEFAULT_MAX_CONCURRENT, env, world, opVars, lifeVars,
                       countVars, dirty>>

InitFallback == InitFunction /\ env = DefaultEnv

SpecFallback == InitFallback /\ [][CallFallback]_vars

----------------------------------------------------------------------------
(* classify_failure applied on its own                                      *)

\* the substrings classify_failure looks for in the lower-cased error text;
\* a text that holds unauthorized also holds auth
ErrorTexts ==
    {Err("text", m) : m \in {m \in SUBSET {"not_installed", "not found", "auth", "unauthorized",
                                           "forbidden", "timeout", "rate", "429", "quota"} :
                                "unauthorized" \in m => "auth" \in m}}

\* return codes: 0 for None (and for 0, which `returncode and ...` treats
\* alike), an ordinary failure, the boundary, signal-style codes and the
\* negative code subprocess reports for a signal
ReturnCodes == {0, 1, 128, 129, 137, -9}

\* error is the text, the empty text or None (both without any marker)
CallClassify ==
    \E error \in ErrorTexts \cup {NoError}, returncode \in ReturnCodes :
        /\ call = NoCall
        /\ call' = [fn |-> "classify_failure",
                    args |-> [error |-> error, returncode |-> returncode],
                    out |-> classify_failure(error, returncode)]
        /\ UNCHANGED <<fileVars, DEFAULT_MAX_CONCURRENT, env, world, opVars, lifeVars,
                       countVars, dirty>>

SpecClassify == InitFallback /\ [][CallClassify]_vars

----------------------------------------------------------------------------
(* retry_with_backoff applied on its own to an attempt function             *)

\* the largest max_retries the loop is called with
MaxRetriesCfg == 2

\* result.get("error", "unknown") of a result without the key error
ErrUnknown == Err("unknown", {})

\* what fn returns: a dict with success and, on failure, an error text and a
\* return code (0 stands for none)
AttemptResult(success, error, returncode) ==
    [success |-> success, error |-> error, failure_type |-> "",
     attempts |-> 0, returncode |-> returncode]

AttemptResults ==
    {AttemptResult(TRUE, NoError, 0)}
    \cup {AttemptResult(FALSE, e, 0) :
             e \in {ErrTimeout, ErrRateLimit, ErrEmptyOutput, ErrNotInstalled, ErrUnknown}}
    \cup {AttemptResult(FALSE, e, 137) : e \in {ErrTimeout, ErrEmptyOutput}}

\* a loop that multiplies the timeout factor after every failure
NextTimeoutFactorAlways(factor, failure_type, timeout_multiplier) ==
    <<factor[1] * timeout_multiplier[1], factor[2] * timeout_multiplier[2]>>

\* retry_with_backoff lines 112-113; factors are fractions <<numerator, denominator>>
NextTimeoutFactor(factor, failure_type, timeout_multiplier) ==
    IF failure_type = "timeout"
    THEN <<factor[1] * timeout_multiplier[1], factor[2] * timeout_multiplier[2]>>
    ELSE factor

\* a loop that gives up one attempt late
ExhaustedLate(attempts, max_retries) == attempts > max_retries + 1

\* retry_with_backoff line 103
Exhausted(attempts, max_retries) == attempts > max_retries

\* an iteration that treats a permanent failure like any other
RetryIterationNoStop(c, r) ==
    LET attempts == c.attempts + 1
        failure_type == classify_failure(r.error, r.returncode)
        c1 == [c EXCEPT !.attempts = attempts,
                        !.scales = Append(@, c.current_timeout_factor),
                        !.answers = Append(@, r),
                        !.log = Append(@, "attempt")]
    IN  IF r.success
        THEN [c1 EXCEPT !.at = "returned", !.types = Append(@, "success"),
                        !.result = [r EXCEPT !.attempts = attempts]]
        ELSE IF Exhausted(attempts, c.max_retries)
        THEN [c1 EXCEPT !.at = "returned", !.types = Append(@, failure_type),
                        !.result = [r EXCEPT !.attempts = attempts,
                                             !.failure_type = failure_type]]
        ELSE [c1 EXCEPT !.at = "sleep", !.types = Append(@, failure_type),
                        !.delays = Append(@, BackoffDelay(attempts, failure_type,
                                                          c.base_delay, c.max_delay)),
                        !.current_timeout_factor =
                            NextTimeoutFactor(@, failure_type, c.timeout_multiplier)]

\* retry_with_backoff lines 85-115: one iteration of the loop, in which fn
\* returns r
RetryIteration(c, r) ==
    LET attempts == c.attempts + 1
        failure_type == classify_failure(r.error, r.returncode)
        c1 == [c EXCEPT !.attempts = attempts,
                        !.scales = Append(@, c.current_timeout_factor),
                        !.answers = Append(@, r),
                        !.log = Append(@, "attempt")]
    IN  IF r.success
        THEN [c1 EXCEPT !.at = "returned", !.types = Append(@, "success"),
                        !.result = [r EXCEPT !.attempts = attempts]]
        ELSE IF failure_type = "permanent" \/ Exhausted(attempts, c.max_retries)
        THEN [c1 EXCEPT !.at = "returned", !.types = Append(@, failure_type),
                        !.result = [r EXCEPT !.attempts = attempts,
                                             !.failure_type = failure_type]]
        ELSE [c1 EXCEPT !.at = "sleep", !.types = Append(@, failure_type),
                        !.delays = Append(@, BackoffDelay(attempts, failure_type,
                                                          c.base_delay, c.max_delay)),
                        !.current_timeout_factor =
                            NextTimeoutFactor(@, failure_type, c.timeout_multiplier)]

\* retry_with_backoff lines 80-82, called with its arguments
RetryStart ==
    /\ call = NoCall
    /\ \E max_retries \in 0..MaxRetriesCfg, base_delay \in {BASE_DELAY, 20},
          timeout_multiplier \in {TIMEOUT_MULTIPLIER, <<2, 1>>} :
         call' = [log |-> <<>>, attempts |-> 0,
                  fn |-> "retry_with_backoff", delays |-> <<>>,
                  result |-> AttemptResult(FALSE, NoError, 0),
                  answers |-> <<>>, base_delay |-> base_delay, max_delay |-> MAX_DELAY,
                  timeout_multiplier |-> timeout_multiplier, max_retries |-> max_retries,
                  scales |-> <<>>, current_timeout_factor |-> <<1, 1>>,
                  at |-> "attempt", types |-> <<>>]
    /\ UNCHANGED <<fileVars, DEFAULT_MAX_CONCURRENT, env, world, opVars, lifeVars,
                   countVars, dirty>>

\* the loop test of line 84 and one iteration; line 118 when the test fails
RetryAttempt ==
    /\ call.fn = "retry_with_backoff" /\ call.at = "attempt"
    /\ \E r \in AttemptResults :
         call' = IF call.attempts <= call.max_retries
                 THEN RetryIteration(call, r)
                 ELSE [call EXCEPT !.at = "returned"]
    /\ UNCHANGED <<fileVars, DEFAULT_MAX_CONCURRENT, env, world, opVars, lifeVars,
                   countVars, dirty>>

\* retry_with_backoff line 116: time.sleep(delay) returns
RetrySleep ==
    /\ call.fn = "retry_with_backoff" /\ call.at = "sleep"
    /\ call' = [call EXCEPT !.at = "attempt", !.log = Append(@, "sleep")]
    /\ UNCHANGED <<fileVars, DEFAULT_MAX_CONCURRENT, env, world, opVars, lifeVars,
                   countVars, dirty>>

NextRetry == RetryStart \/ RetryAttempt \/ RetrySleep

SpecRetry == InitFallback /\ [][NextRetry]_vars

\* fn and time.sleep return
SpecRetryLive == SpecRetry /\ WF_vars(NextRetry)

----------------------------------------------------------------------------
(* guard_context applied to two contents that differ only in the characters *)
(* of their secrets                                                         *)

\* the contents: shape k with c for the characters of its secrets
SecretShape(k, c) ==
    CASE k = 1 -> <<Kw, Eq, Run(c, 21)>>
      [] k = 2 -> <<Run("x", 4), Nl(1), Ak(c)>>
      [] k = 3 -> <<Kw, Sp(1), Eq, Sp(1), Qt, Run(c, 21), Qt, Nl(1), Ak(c)>>
      [] k = 4 -> <<Kw, Eq, Run(c, 4), Nl(2), Run("x", 4)>>
      [] OTHER -> PlainText

ExtraFile == [up |-> 0, base |-> "extra", name |-> "notes.md"]
KeyFile == [up |-> 0, base |-> "project", name |-> "server.pem"]

SourceFiles ==
    {NoFiles, Files(<<>>), Files(<<ProjectFile>>), Files(<<ExtraFile>>),
     Files(<<ProjectFile, OutsideFile>>), Files(<<KeyFile, BlockedFile>>)}

GuardEnvs ==
    {[policy |-> po, project_dir |-> d, extra |-> x, strict |-> s] :
        po \in ValidPolicies \cup {"redcat"}, s \in BOOLEAN, d \in BOOLEAN, x \in BOOLEAN}

\* two calls of guard_context, one after the other, under one configuration
CallGuardTwice ==
    /\ call = NoCall
    /\ \E k \in 1..5, source_files \in SourceFiles :
         LET g1 == guard_context(SecretShape(k, "a"), source_files, env)
             g2 == guard_context(SecretShape(k, "b"), source_files, env)
         IN  /\ call' = [fn |-> "guard_context",
                         args |-> [source_files |-> source_files,
                                   contents |-> <<SecretShape(k, "a"), SecretShape(k, "b")>>],
                         out |-> <<g1, g2>>]
             /\ auditLog' = auditLog \o g1.audit \o g2.audit
    /\ UNCHANGED <<fileVars, DEFAULT_MAX_CONCURRENT, env, world, opVars, life, countVars, dirty>>

InitGuard == InitFunction /\ env \in GuardEnvs

SpecGuard == InitGuard /\ [][CallGuardTwice]_vars

----------------------------------------------------------------------------
(* guard_context applied once, and applied to None and to the empty list    *)

\* contents: without secret; with one quoted secret; with two; a line of a
\* .env file whose value ends in base64 padding, and one that does not; and
\* contents above the size cap with a secret behind and before the cap; and
\* one whose last line is no .env line but is cut by the cap after the eighth
\* character of its value
GuardContents ==
    {PlainText, SecretText,
     <<Kw, Eq, Run("s", 21), Nl(1), Ak("s")>>,
     <<Akw, Eq, Run("s", 24), Sym(2), Run("s", 8)>>,
     <<Akw, Eq, Run("s", 24)>>,
     <<Run("x", MAX_CONTEXT_SIZE), Nl(1), Kw, Eq, Run("s", 21)>>,
     <<Kw, Eq, Run("s", 21), Nl(1), Run("x", MAX_CONTEXT_SIZE)>>,
     <<Run("x", MAX_CONTEXT_SIZE - 17), Nl(1), Akw, Eq, Run("s", 8), Sp(1), Run("s", 4)>>}

CallGuard ==
    /\ call = NoCall
    /\ \E content \in GuardContents,
          source_files \in SourceFiles \cup {Files(<<KeyFile, OutsideFile>>)} :
         LET g == guard_context(content, source_files, env)
         IN  /\ call' = [fn |-> "guard_context",
                         args |-> [content |-> content, source_files |-> source_files],
                         out |-> g]
             /\ auditLog' = auditLog \o g.audit
    /\ UNCHANGED <<fileVars, DEFAULT_MAX_CONCURRENT, env, world, opVars, life, countVars, dirty>>

\* guard_context(content) and guard_context(content, []) under one configuration
CallGuardUnknownOrigin ==
    /\ call = NoCall
    /\ \E content \in GuardContents :
         LET g1 == guard_context(content, NoFiles, env)
             g2 == guard_context(content, Files(<<>>), env)
         IN  /\ call' = [fn |-> "guard_context, unknown origin",
                         args |-> [content |-> content],
                         out |-> <<g1, g2>>]
             /\ auditLog' = auditLog \o g1.audit \o g2.audit
    /\ UNCHANGED <<fileVars, DEFAULT_MAX_CONCURRENT, env, world, opVars, life, countVars, dirty>>

SpecGuardOnce == InitGuard /\ [][CallGuard \/ CallGuardUnknownOrigin]_vars

----------------------------------------------------------------------------
(* guard_context applied several times in a row, with the audit file that   *)
(* _audit_log appends to: each write either reaches the file or raises and  *)
(* is swallowed by _audit_log                                               *)

MaxRuns == 2

RECURSIVE Kept(_, _, _)
\* the records, from the i-th on, whose write succeeded
Kept(records, ok, i) ==
    IF i > Len(records) THEN <<>>
    ELSE (IF ok[i] THEN <<records[i]>> ELSE <<>>) \o Kept(records, ok, i + 1)

\* _audit_log called with a file opened for writing instead of appending
AppendAuditRewrite(log, records, ok) == Kept(records, ok, 1)

\* the _audit_log calls of one run, lines 208-219: open(log_file, "a") and
\* write one line per call; ok[i] tells whether the i-th call's write succeeded
AppendAudit(log, records, ok) == log \o Kept(records, ok, 1)

AuditContents == {PlainText, SecretText}

\* one run of guard_context
GuardRun ==
    /\ call = NoCall \/ (call.fn = "guard_context" /\ call.run < MaxRuns)
    /\ \E content \in AuditContents,
          source_files \in SourceFiles \cup {Files(<<KeyFile, OutsideFile>>)} :
         LET g == guard_context(content, source_files, env)
         IN  \E ok \in [DOMAIN g.audit -> BOOLEAN] :
                /\ call' = [fn |-> "guard_context",
                            args |-> [content |-> content, source_files |-> source_files],
                            out |-> g,
                            ok |-> ok,
                            run |-> IF call = NoCall THEN 1 ELSE call.run + 1,
                            before |-> auditLog]
                /\ auditLog' = AppendAudit(auditLog, g.audit, ok)
    /\ UNCHANGED <<fileVars, DEFAULT_MAX_CONCURRENT, env, world, opVars, life, countVars, dirty>>

SpecAudit == InitGuard /\ [][GuardRun]_vars

----------------------------------------------------------------------------
(* Lifecycles of several processes among release_slot and reset_session     *)
(* calls that other processes invoke, on a ledger that starts with no call  *)
(* in flight                                                                *)

InFlightWorld ==
    [inputs |-> {[content |-> PlainText, files |-> Files(<<ProjectFile>>)]},
     answers |-> {[NoResult EXCEPT !.success = TRUE]},
     lifecycles |-> MaxLife, direct |-> 1, history |-> FALSE]

InitInFlight ==
    /\ DEFAULT_MAX_CONCURRENT = 1
    /\ file \in {NoFile, StateFile(Defaults)}
    /\ init0 = Parse(file)
    /\ InitProgram
    /\ env = DefaultEnv
    /\ world = InFlightWorld

NextInFlight ==
    \E p \in Procs :
        \/ LifecycleStart(p, "codex", PlainText, Files(<<ProjectFile>>))
        \/ AcquireCall(p)
        \/ ConcurrencyLimit(p)
        \/ SlotAcquired(p)
        \/ AttemptDelegate(p)
        \/ RecordCallCall(p)
        \/ ReleaseSlotCall(p)
        \/ LifecycleReturn(p)
        \/ CallReleaseSlot(p)
        \/ CallResetSession(p)
        \/ WriteTextOpen(p)
        \/ WriteTextWrite(p)
        \/ LoadStateLocked(p)
        \/ CheckBudgetBody(p)
        \/ RecordCallBody(p)
        \/ AcquireSlotFull(p)
        \/ AcquireSlotTake(p)
        \/ ReleaseSlotBody(p)
        \/ ResetSessionBody(p)
        \/ FileUnlock(p)
        \/ CloseAndReturn(p)

SpecInFlight == InitInFlight /\ [][NextInFlight]_vars

\* the lifecycles between an acquire_slot that returned True and the return
\* of their release_slot
InFlight ==
    {p \in Procs :
        \/ life[p].phase \in {"attempt", "sleep", "finally", "record"}
        \/ life[p].phase = "acquire" /\ pc[p] = "idle" /\ ret[p] = RetBool(TRUE)
        \/ life[p].phase = "release" /\ pc[p] # "idle"}

----------------------------------------------------------------------------
(* Threads: every caller is a thread of one of two processes.  The threads  *)
(* of one process share the module-level threading.Lock `_lock`; a thread   *)
(* holds it from the entry of `with _lock:` to the return of the operation. *)
(* The ledger file is absent, left by reset_session, or holds JSON that is  *)
(* no object.                                                               *)

ThreadWorld(m) ==
    [inputs |-> {}, answers |-> {}, lifecycles |-> 0, direct |-> MaxOps, history |-> FALSE,
     process |-> m]

InitThreads ==
    /\ DEFAULT_MAX_CONCURRENT = 1
    /\ file \in {NoFile, StateFile(Defaults), NonObjectFile}
    /\ init0 = Parse(file)
    /\ InitProgram
    /\ env = DefaultEnv
    /\ world \in {ThreadWorld(m) : m \in {f \in [Procs -> 1..2] : f[1] = 1}}

\* the thread is inside `with _lock:`
HoldsMutex(t) == pc[t] \notin {"idle", "mutex"}

\* a thread calls a ledger operation and reaches `with _lock:`
Invoke(t) ==
    /\ nops < world.direct
    /\ pc[t] = "idle"
    /\ \E o \in {"check_budget", "acquire_slot", "record_call", "release_slot"} :
          /\ op' = [op EXCEPT ![t] = o]
          /\ arg' = [arg EXCEPT ![t] = [tokens |-> IF o = "acquire_slot" THEN 0 ELSE 1000,
                                        agent |-> "codex"]]
          /\ invoked' = invoked \cup {o}
    /\ pc' = [pc EXCEPT ![t] = "mutex"]
    /\ ret' = [ret EXCEPT ![t] = RetNone]
    /\ fault' = [fault EXCEPT ![t] = "none"]
    /\ nops' = nops + 1
    /\ dirty' = [dirty EXCEPT ![t] = FALSE]
    /\ UNCHANGED <<fileVars, sideVars, st, buf, lifeVars, nlife, init0, grants, recSum, recCnt, hist>>

\* `with _lock:` is entered once no other thread of the process is inside
\* it; then lines 73-74 of _load_state_locked: mkdir, exists()
MutexAcquire(t) ==
    /\ pc[t] = "mutex"
    /\ \A u \in Procs \ {t} : world.process[u] = world.process[t] => ~HoldsMutex(u)
    /\ pc' = [pc EXCEPT ![t] = IF file.kind = "nofile" THEN "wt_open" ELSE "lock"]
    /\ UNCHANGED <<fileVars, sideVars, op, arg, st, buf, ret, lifeVars, countVars, dirty>>

NextThreads ==
    \E t \in Procs :
        \/ Invoke(t)
        \/ MutexAcquire(t)
        \/ WriteTextOpen(t)
        \/ WriteTextWrite(t)
        \/ LoadStateLocked(t)
        \/ LoadFails(t)
        \/ SetdefaultRaises(t)
        \/ ExceptReturn(t)
        \/ CheckBudgetBody(t)
        \/ RecordCallBody(t)
        \/ AcquireSlotFull(t)
        \/ AcquireSlotTake(t)
        \/ ReleaseSlotBody(t)
        \/ FileUnlock(t)
        \/ CloseAndReturn(t)

SpecThreads == InitThreads /\ [][NextThreads]_vars

\* the scheduler runs some thread that can take a step
SpecThreadsLive == SpecThreads /\ WF_vars(NextThreads)

----------------------------------------------------------------------------
(* record_call, reset_session and get_summary calls of several processes *)

NextRecords ==
    \E p \in Procs :
        \/ CallRecordCall(p)
        \/ CallResetSession(p)
        \/ CallGetSummary(p)
        \/ WriteTextOpen(p)
        \/ WriteTextWrite(p)
        \/ LoadStateLocked(p)
        \/ RecordCallBody(p)
        \/ ResetSessionBody(p)
        \/ GetSummaryBody(p)
        \/ FileUnlock(p)
        \/ CloseAndReturn(p)

SpecRecords == InitLedger /\ [][NextRecords]_vars

----------------------------------------------------------------------------
(* Properties                                                               *)

\* C1: when acquire_slot calls of several processes race for a ledger that
\* has exactly one free slot (max_concurrent - active_calls = 1), the file
\* existing or being created lazily by the racing callers, at most one of
\* the calls returns True.
C1_AtMostOneGrant ==
    (invoked \subseteq {"acquire_slot"} /\ init0.max_concurrent - init0.active_calls = 1)
        => grants <= 1

\* C2: for lifecycles run by several processes on one ledger, the number of
\* lifecycles that are between a successful acquire_slot and their
\* release_slot never exceeds max_concurrent.
C2_HoldersWithinLimit ==
    Cardinality({p \in Procs : life[p].phase \in {"attempt", "sleep", "finally", "record"}})
        <= DEFAULT_MAX_CONCURRENT

\* C3: in every reachable ledger state, under all interleavings of
\* acquire_slot and release_slot calls (release_slot without a matching
\* acquire included), 0 <= active_calls <= max_concurrent; the same holds of
\* every state an operation is about to write.
C3_ActiveCallsInRange ==
    /\ 0 <= Parse(file).active_calls
    /\ Parse(file).active_calls <= Parse(file).max_concurrent
    /\ \A p \in Procs :
         buf[p].kind = "state" =>
            /\ 0 <= buf[p].st.active_calls
            /\ buf[p].st.active_calls <= buf[p].st.max_concurrent

\* C3's case: release_slot, with no acquire before it, has computed the new
\* count of a ledger whose active_calls was 0
C3_ReleaseAtZero ==
    \E p \in Procs :
        /\ invoked = {"release_slot"}
        /\ init0.active_calls = 0
        /\ op[p] = "release_slot" /\ pc[p] = "unlock"
        /\ buf[p].kind = "state" /\ buf[p].st.active_calls = 0

\* C4: in every execution of the call lifecycle release_slot is called
\* exactly once if acquire_slot returned True, on every exit path (success,
\* failure after retries, permanent failure with fallback, exception out of
\* the retry loop, failure of record_call), and zero times if the lifecycle
\* aborted with budget_exceeded or concurrency_limit.
C4_ReleaseIffAcquired ==
    \A p \in Procs :
        LET l == life[p]
        IN  /\ l.n_release <= 1
            /\ l.n_release = 1 => l.acquired
            /\ l.returned => l.n_release = (IF l.acquired THEN 1 ELSE 0)

\* C4's case: a lifecycle that held a slot and ended in the fallback envelope
\* has returned, after one release_slot
C4_FallbackReleased ==
    \E p \in Procs :
        /\ life[p].returned /\ life[p].acquired
        /\ life[p].result.fallback
        /\ life[p].n_release = 1 /\ life[p].n_record = 1

\* C5: the attempt is invoked only after check_budget allowed and then
\* acquire_slot returned True; a lifecycle that check_budget disallows
\* returns budget_exceeded without calling acquire_slot, the attempt,
\* record_call or release_slot; one that acquire_slot refuses returns
\* concurrency_limit without calling the attempt, record_call or
\* release_slot; in both abort cases the lifecycle leaves the ledger state
\* unchanged.
C5_OrderAndCleanAbort ==
    \A p \in Procs :
        LET l == life[p]
        IN  /\ l.fn_calls > 0 => l.allowed /\ l.acquired
            /\ l.n_acquire > 0 => l.allowed
            /\ (l.returned /\ l.result.error = ErrBudgetExceeded) =>
                  /\ l.n_acquire = 0 /\ l.fn_calls = 0 /\ l.n_record = 0 /\ l.n_release = 0
                  /\ ~dirty[p]
            /\ (l.returned /\ l.result.error = ErrConcurrencyLimit) =>
                  /\ l.fn_calls = 0 /\ l.n_record = 0 /\ l.n_release = 0
                  /\ ~dirty[p]

\* C6: every attempt, the first and every retry, passes its input through
\* guard_context before the delegate is started; the delegate receives only
\* the content guard_context returned in that attempt; when guard_context
\* rejects, the delegate is not contacted and the attempt is a failure with
\* error context_blocked.
C6_DelegateGetsGuardOutput ==
    \A p \in Procs : \A i \in DOMAIN life[p].trace :
        LET t == life[p].trace[i]
        IN  /\ t.contacted => t.verdict \in {"Passed", "Redacted"} /\ t.sent = t.guarded
            /\ t.verdict = "Rejected" =>
                  ~t.contacted /\ ~t.success /\ t.error = "context_blocked"

\* C6's case: a retry whose prompt held a secret was sent to the delegate
\* redacted
C6_RetrySentRedacted ==
    \E p \in Procs :
        /\ Len(life[p].trace) = 2
        /\ life[p].trace[2].contacted
        /\ life[p].trace[2].verdict = "Redacted"
        /\ life[p].trace[2].sent # Prompt(life[p].agent, life[p].content)
        /\ scan_secrets(Prompt(life[p].agent, life[p].content)) # <<>>

\* C7: a rejection by guard_context (error context_blocked) is never
\* retried: in a lifecycle whose first attempt is rejected the attempt
\* function is invoked exactly once, no backoff sleep occurs, and the result
\* reports attempts = 1.
C7_BlockedNotRetried ==
    \A p \in Procs :
        LET l == life[p]
        IN  (l.trace # <<>> /\ l.trace[1].verdict = "Rejected") =>
                /\ l.phase # "sleep"
                /\ l.fn_calls = 1
                /\ l.delays = <<>>
                /\ l.phase = "finally" => l.result.attempts = 1

\* C8: the envelope fallback_to_orchestrator returns never contains
\* unredacted task content, whether redaction succeeds or raises and the
\* truncated excerpt is taken: no secret span of original_task is in the
\* envelope.
C8_EnvelopeHoldsNoSecret ==
    call.fn = "fallback_to_orchestrator" => scan_secrets(call.out.original_task) = <<>>

\* C9: under policy block, when guard_context rejects content because of
\* findings, for two inputs that differ only in the characters of the
\* detected secrets the rejection reason and the audit records written are
\* identical, and they hold the number of findings and the policy only,
\* nothing of the content.
C9_RejectionIndependentOfSecret ==
    (/\ call.fn = "guard_context"
     /\ ConsentPolicy(env) = "block"
     /\ call.out[1].verdict = "Rejected" /\ call.out[1].reason.kind = "secrets"
     /\ call.out[2].verdict = "Rejected" /\ call.out[2].reason.kind = "secrets") =>
        /\ call.out[1].reason = call.out[2].reason
        /\ call.out[1].audit = call.out[2].audit
        /\ DOMAIN call.out[1].reason = {"kind", "count"}
        /\ \A i \in DOMAIN call.out[1].audit :
             call.out[1].audit[i].event = "secrets_found" =>
                DOMAIN call.out[1].audit[i].details = {"count", "policy"}

\* C9's case: two contents with an AWS key of different characters were
\* both rejected for two findings under policy block
C9_TwoKeysRejected ==
    /\ call.fn = "guard_context"
    /\ ConsentPolicy(env) = "block"
    /\ call.args.contents[1] # call.args.contents[2]
    /\ call.out[1].verdict = "Rejected" /\ call.out[1].reason.kind = "secrets"
    /\ call.out[2].verdict = "Rejected" /\ call.out[2].reason.kind = "secrets"
    /\ call.out[1].reason.count = 2
    /\ scan_secrets(call.args.contents[1])[1].match # scan_secrets(call.args.contents[2])[1].match

\* C10: ledger mutations are linearizable across processes; in particular
\* no update is lost: once record_call, acquire_slot and release_slot calls
\* issued concurrently have all returned, total_tokens has risen by exactly
\* the sum of the recorded tokens and calls has exactly one more record per
\* record_call.
C10_NoLostUpdate ==
    ((\A p \in Procs : pc[p] = "idle") /\ "reset_session" \notin invoked) =>
        /\ Parse(file).total_tokens = init0.total_tokens + recSum
        /\ Len(Parse(file).calls) = Len(init0.calls) + recCnt

\* C11: after any ledger operation (check_budget, record_call, acquire_slot,
\* release_slot, reset_session, get_summary) has returned, by any exit path,
\* an exception while loading, parsing, defaulting or saving included, the
\* calling process holds neither the file lock nor the in-process mutex (the
\* mutex is `with _lock`, held exactly while the operation is in progress).
C11_NoLockAfterReturn ==
    \A p \in Procs : pc[p] = "idle" => p \notin lockOwner

\* C11's case: an operation returned after state.setdefault raised with the
\* lock taken
C11_ReturnedAfterRaise ==
    \E p \in Procs :
        /\ pc[p] = "idle" /\ fault[p] = "defaults"
        /\ op[p] = "reset_session"
        /\ lockOwner = {}

\* C12: acquire_slot fails closed: whenever a step of its ledger access
\* fails (directory creation, open, lock, read, write) it returns False,
\* never raises, and does not report a slot as acquired.
C12_AcquireFailsClosed ==
    \A p \in Procs :
        (pc[p] = "idle" /\ op[p] = "acquire_slot" /\ fault[p] # "none") => ret[p] = RetBool(FALSE)

\* C13: check_budget fails open: whenever its ledger access fails (I/O or
\* lock error) it returns allowed = true with the degraded marker
\* fallback = true and the configured default limits, and never raises.
C13_CheckBudgetFailsOpen ==
    \A p \in Procs :
        (pc[p] = "idle" /\ op[p] = "check_budget" /\ fault[p] # "none") =>
            /\ ret[p].allowed /\ ret[p].fallback
            /\ ret[p].limit = DEFAULT_TOKEN_BUDGET
            /\ ret[p].max_concurrent = DEFAULT_MAX_CONCURRENT

\* C14: for every ledger state and every estimated_tokens, when no I/O
\* failure occurs, check_budget returns allowed = false if and only if
\* budget_limit - total_tokens < estimated_tokens or
\* active_calls >= max_concurrent; allowed = true when remaining equals
\* estimated_tokens and a slot is free.
C14_AllowedIff ==
    \A p \in Procs :
        (pc[p] = "idle" /\ op[p] = "check_budget" /\ fault[p] = "none") =>
            LET s == Parse(file)
            IN  /\ ~ret[p].allowed <=>
                      \/ s.budget_limit - s.total_tokens < arg[p].tokens
                      \/ s.active_calls >= s.max_concurrent
                /\ (s.budget_limit - s.total_tokens = arg[p].tokens
                        /\ s.active_calls < s.max_concurrent) => ret[p].allowed

\* C14's case: check_budget allowed an estimate equal to what remains
C14_AllowedAtBoundary ==
    \E p \in Procs :
        /\ pc[p] = "idle" /\ op[p] = "check_budget" /\ fault[p] = "none"
        /\ arg[p].tokens = 5000 /\ ret[p].remaining = 5000
        /\ ret[p].allowed

\* C15: acquire_slot is an atomic test-and-increment: a call that returns
\* True has increased active_calls by exactly 1 and a call that returns False
\* has changed nothing, so that once the acquire_slot calls of all processes
\* have returned the stored active_calls is the initial count plus the number
\* of calls that returned True (sequentially: True max_concurrent times, then
\* False).
C15_AcquireCountsGrants ==
    (invoked \subseteq {"acquire_slot"} /\ \A p \in Procs : pc[p] = "idle")
        => Parse(file).active_calls = init0.active_calls + grants

\* C16: from any ledger state reached by record_call, acquire_slot and
\* release_slot, reset_session immediately followed by get_summary yields
\* total_tokens 0, total_calls 0, an empty by_agent and remaining_tokens equal
\* to the configured default budget; check_budget then reports active_calls 0
\* and the default limits, and the next max_concurrent acquire_slot calls
\* return True.
C16_ResetThenFresh ==
    \A i \in DOMAIN hist :
        hist[i].op = "reset_session" =>
            /\ i + 1 \in DOMAIN hist =>
                  /\ hist[i + 1].op = "get_summary"
                  /\ hist[i + 1].ret.total_tokens = 0
                  /\ hist[i + 1].ret.total_calls = 0
                  /\ DOMAIN hist[i + 1].ret.by_agent = {}
                  /\ hist[i + 1].ret.remaining_tokens = DEFAULT_TOKEN_BUDGET
            /\ i + 2 \in DOMAIN hist =>
                  /\ hist[i + 2].op = "check_budget"
                  /\ hist[i + 2].ret.active_calls = 0
                  /\ hist[i + 2].ret.limit = DEFAULT_TOKEN_BUDGET
                  /\ hist[i + 2].ret.max_concurrent = DEFAULT_MAX_CONCURRENT
                  /\ ~hist[i + 2].ret.fallback
            /\ \A k \in 1..DEFAULT_MAX_CONCURRENT :
                  i + 2 + k \in DOMAIN hist =>
                      /\ hist[i + 2 + k].op = "acquire_slot"
                      /\ hist[i + 2 + k].ret = RetBool(TRUE)

\* C16's case: a session that recorded a call and took a slot under limits
\* other than this process's defaults was reset, and get_summary,
\* check_budget and max_concurrent acquire_slot calls have returned since
C16_ResetAfterUse ==
    /\ init0.budget_limit # DEFAULT_TOKEN_BUDGET
    /\ init0.max_concurrent # DEFAULT_MAX_CONCURRENT
    /\ Len(hist) = 2 + 3 + DEFAULT_MAX_CONCURRENT
    /\ hist[1].op = "record_call"
    /\ hist[2].op = "acquire_slot" /\ hist[2].ret = RetBool(TRUE)
    /\ hist[3].op = "reset_session"
    /\ DEFAULT_MAX_CONCURRENT = MaxConcurrentCfg

\* C17: the shared token quota is never exceeded: for any interleaving of
\* call lifecycles run by the processes from a reset ledger, the stored
\* total_tokens never exceeds budget_limit.
C17_QuotaNeverExceeded ==
    Parse(file).total_tokens <= Parse(file).budget_limit

\* C18: within a session (no reset_session) the stored total_tokens never
\* decreases: whatever operations the processes have run and however they
\* interleaved, once they have all returned the stored total_tokens is at
\* least the value the session started with.
C18_TotalNotBelowStart ==
    ("reset_session" \notin invoked /\ \A p \in Procs : pc[p] = "idle")
        => Parse(file).total_tokens >= init0.total_tokens

\* C19: the ledger's limits are immutable except via reset_session: with no
\* reset_session running, the budget_limit and max_concurrent that
\* check_budget and get_summary report to any process, and the max_concurrent
\* acquire_slot tests against, are the stored ones, whatever operations ran
\* before and whatever defaults the process is configured with.
C19_LimitsAsStored ==
    \A p \in Procs :
        /\ (pc[p] = "idle" /\ op[p] = "check_budget") =>
               /\ ret[p].limit = init0.budget_limit
               /\ ret[p].max_concurrent = init0.max_concurrent
        /\ (pc[p] = "idle" /\ op[p] = "get_summary") =>
               ret[p].budget_limit = init0.budget_limit
        /\ (pc[p] = "loaded" /\ op[p] = "acquire_slot") =>
               st[p].max_concurrent = init0.max_concurrent

\* C20: on a backing file whose content is corrupt or unparseable every
\* ledger operation treats the state as empty instead of failing, and a
\* mutation that has returned has rewritten the file as a well-formed state.
C20_CorruptReadAsEmpty ==
    \A p \in Procs :
        (pc[p] = "idle" /\ op[p] # "none") =>
            /\ fault[p] = "none"
            /\ op[p] \in {"record_call", "release_slot", "reset_session"} =>
                   file.kind = "state"
            /\ (op[p] = "acquire_slot" /\ ret[p] = RetBool(TRUE)) => file.kind = "state"

\* C21: no process holds the ledger file lock, or is inside a ledger
\* operation (where it holds the in-process mutex), while a delegate
\* attempt, a guard run or a backoff sleep of its lifecycle is in progress.
C21_NoLockAcrossAttempt ==
    \A p \in Procs :
        life[p].phase \in {"attempt", "sleep"} => (p \notin lockOwner /\ pc[p] = "idle")

\* C21's case: a lifecycle that took its slot sleeps between two attempts
C21_SleepingWithSlot ==
    \E p \in Procs :
        /\ life[p].phase = "sleep" /\ life[p].acquired
        /\ Parse(file).active_calls >= 1
        /\ lockOwner = {}

\* C22: in retry_with_backoff, as soon as an attempt fails and is classified
\* permanent the loop stops: that attempt is the last one, no sleep follows
\* it, and the returned result carries failure_type permanent and attempts
\* equal to the number of attempts made so far.
C22_PermanentStops ==
    call.fn = "retry_with_backoff" =>
        \A i \in DOMAIN call.types :
            call.types[i] = "permanent" =>
                /\ i = Len(call.types)
                /\ call.at = "returned"
                /\ call.log[Len(call.log)] = "attempt"
                /\ call.result.failure_type = "permanent"
                /\ call.result.attempts = i
                /\ ~call.result.success

\* C22's case: the second of three allowed attempts failed permanently
C22_PermanentOnRetry ==
    /\ call.fn = "retry_with_backoff"
    /\ call.max_retries = 2
    /\ call.types = <<"transient", "permanent">>
    /\ call.at = "returned"

\* C24: for every max_retries >= 0 and every attempt function that returns,
\* retry_with_backoff terminates after calling the function at least once and
\* at most max_retries + 1 times; a success is returned at once with attempts
\* the index of the successful attempt; when every attempt fails and none is
\* permanent it returns the last attempt's failure with attempts =
\* max_retries + 1 and its failure_type set.
C24_TerminatesWithLastResult ==
    /\ [](call.fn = "retry_with_backoff" =>
            /\ call.attempts <= call.max_retries + 1
            /\ Len(call.answers) = call.attempts
            /\ \A j \in DOMAIN call.answers :
                   call.answers[j].success => (j = call.attempts /\ call.at = "returned")
            /\ call.at = "returned" =>
                   /\ call.attempts >= 1
                   /\ call.result.attempts = call.attempts
                   /\ call.result.success = call.answers[call.attempts].success
                   /\ call.result.error = call.answers[call.attempts].error
                   /\ (\A j \in DOMAIN call.answers :
                           ~call.answers[j].success /\ call.types[j] # "permanent")
                        => /\ call.attempts = call.max_retries + 1
                           /\ ~call.result.success
                           /\ call.result.failure_type \in {"transient", "timeout", "rate_limit"}
                           /\ call.result.failure_type = call.types[call.attempts])
    /\ <>(call.fn = "retry_with_backoff" /\ call.at = "returned")

\* C24's case: every one of max_retries + 1 = 3 attempts failed, none of
\* them permanently, and the loop has returned
C24_Exhausted ==
    /\ call.fn = "retry_with_backoff"
    /\ call.max_retries = 2
    /\ call.types = <<"timeout", "rate_limit", "transient">>
    /\ call.at = "returned"

\* C25: in retry_with_backoff the wait after the n-th failed attempt is
\* min(base_delay * 2^(n-1), max_delay) for transient and timeout failures
\* and min(3 * min(base_delay * 2^(n-1), max_delay), max_delay) for
\* rate_limit failures; every wait is at most max_delay; waits happen only
\* between two attempts, so a run with a attempts performs a - 1 waits; with
\* max_retries = 2 and an attempt function that always fails with a rate
\* limit the result is a failure with attempts = 3.
C25_Waits ==
    call.fn = "retry_with_backoff" =>
        /\ \A n \in DOMAIN call.delays :
               LET plain == IF call.base_delay * 2^(n - 1) <= call.max_delay
                            THEN call.base_delay * 2^(n - 1) ELSE call.max_delay
               IN  /\ call.types[n] \in {"transient", "timeout"} => call.delays[n] = plain
                   /\ call.types[n] = "rate_limit" =>
                          call.delays[n] = IF 3 * plain <= call.max_delay
                                           THEN 3 * plain ELSE call.max_delay
                   /\ call.types[n] \in {"transient", "timeout", "rate_limit"}
                   /\ call.delays[n] <= call.max_delay
        /\ \A i \in DOMAIN call.log :
               call.log[i] = "sleep" =>
                  /\ i > 1 /\ call.log[i - 1] = "attempt"
                  /\ (i < Len(call.log) => call.log[i + 1] = "attempt")
                  /\ (i = Len(call.log) => call.at = "attempt")
        /\ call.at = "returned" =>
               /\ Len(call.delays) = call.attempts - 1
               /\ Cardinality({i \in DOMAIN call.log : call.log[i] = "sleep"})
                      = call.attempts - 1
               /\ (call.max_retries = 2 /\ \A j \in 1..3 : j \in DOMAIN call.types
                                                           /\ call.types[j] = "rate_limit")
                    => (~call.result.success /\ call.result.attempts = 3)

\* C25's case: three attempts that hit a rate limit, with base_delay 20 and
\* max_delay 30, so that the tripled wait is capped
C25_RateLimitedThrice ==
    /\ call.fn = "retry_with_backoff"
    /\ call.max_retries = 2 /\ call.base_delay = 20
    /\ call.types = <<"rate_limit", "rate_limit", "rate_limit">>
    /\ call.delays = <<30, 30>>
    /\ call.at = "returned"

\* C26: in retry_with_backoff the timeout scale passed to the first attempt
\* is 1.0 and the scale passed to attempt k is timeout_multiplier raised to
\* the number of earlier attempts of the run that were classified timeout;
\* transient and rate_limit failures leave the scale unchanged.
C26_TimeoutScale ==
    call.fn = "retry_with_backoff" =>
        \A k \in DOMAIN call.scales :
            LET timeouts == Cardinality({j \in 1..(k - 1) : call.types[j] = "timeout"})
            IN  /\ call.scales[k] = <<call.timeout_multiplier[1]^timeouts,
                                      call.timeout_multiplier[2]^timeouts>>
                /\ k = 1 => call.scales[k] = <<1, 1>>

\* C26's case: a timeout, then a rate limit, then a third attempt, which is
\* passed the multiplier 1.5 once
C26_TimeoutThenRateLimit ==
    /\ call.fn = "retry_with_backoff"
    /\ call.timeout_multiplier = <<3, 2>>
    /\ Len(call.scales) = 3
    /\ call.types[1] = "timeout" /\ call.types[2] = "rate_limit"
    /\ call.scales = <<(<<1, 1>>), (<<3, 2>>), (<<3, 2>>)>>

\* C23: in the call lifecycle fallback_to_orchestrator is invoked if and only
\* if the retry loop ended in a failure classified permanent, or an exception
\* escaped the retry loop; a lifecycle whose loop ended in success or in an
\* exhausted transient, timeout or rate_limit failure returns the attempt's
\* result itself, never a fallback envelope.
C23_FallbackIffPermanent ==
    \A p \in Procs :
        (life[p].phase = "finally" /\ pc[p] = "idle") =>
            LET l == life[p]
                raised == l.fn_calls > Len(l.trace)
                last == l.trace[Len(l.trace)]
                permanent == /\ l.trace # <<>>
                             /\ ~last.success
                             /\ last.error \in {ErrNotInstalled.name, ErrUnauthorized.name}
            IN  /\ l.result.fallback <=> (raised \/ permanent)
                /\ l.result.fallback => (~l.result.success /\ l.result.failure_type = "permanent")
                /\ (~raised /\ ~permanent) =>
                       /\ l.result.success = last.success
                       /\ l.result.error.name = last.error
                       /\ l.result.attempts = Len(l.trace)
                       /\ l.result.success \/ l.result.failure_type \in {"transient", "timeout", "rate_limit"}

\* C23's case: the retry loop has ended with its attempts exhausted by a
\* rate limit and the lifecycle returns that failure, not an envelope
C23_ExhaustedNoFallback ==
    \E p \in Procs :
        /\ life[p].phase = "finally" /\ pc[p] = "idle"
        /\ Len(life[p].trace) = MAX_RETRIES + 1
        /\ life[p].result.failure_type = "rate_limit"
        /\ ~life[p].result.fallback

\* C27: classify_failure is total with a fixed precedence over the features
\* of the error: a not-installed/not-found or auth/unauthorized/forbidden
\* marker gives permanent; else a timeout marker gives timeout; else a
\* rate/429/quota marker gives rate_limit; else a return code above 128 gives
\* permanent; else transient. An error with a timeout (or rate-limit) marker
\* and a return code above 128 is timeout (or rate_limit); an empty or
\* missing error text with no return code is transient.
C27_ClassifyPrecedence ==
    call.fn = "classify_failure" =>
        LET m == call.args.error.markers
            rc == call.args.returncode
            perm == m \cap {"not_installed", "not found", "auth", "unauthorized", "forbidden"} # {}
            tmo == "timeout" \in m
            rate == m \cap {"rate", "429", "quota"} # {}
        IN  /\ call.out \in {"permanent", "timeout", "rate_limit", "transient"}
            /\ perm => call.out = "permanent"
            /\ (~perm /\ tmo) => call.out = "timeout"
            /\ (~perm /\ ~tmo /\ rate) => call.out = "rate_limit"
            /\ (~perm /\ ~tmo /\ ~rate /\ rc > 128) => call.out = "permanent"
            /\ (~perm /\ ~tmo /\ ~rate /\ rc <= 128) => call.out = "transient"
            /\ (m = {} /\ rc = 0) => call.out = "transient"

\* C27's case: an error text with the timeout and rate markers and a
\* signal-style return code has been classified timeout
C27_TimeoutBeatsSignal ==
    /\ call.fn = "classify_failure"
    /\ call.args.error.markers = {"timeout", "rate"}
    /\ call.args.returncode = 137
    /\ call.out = "timeout"

\* C28: guard_context runs its stages in the order size cap, origin policy,
\* directory allowlist, file-pattern blocklist, secret scan, policy
\* application; a rejection at any stage is terminal, so no later stage runs
\* (content of unknown origin rejected by the origin policy is never scanned
\* and produces no findings event), and every run ends in exactly one of
\* Rejected, Redacted or Passed.
C28_StagesInOrder ==
    call.fn = "guard_context" =>
        LET g == call.out
            c0 == SizeCap(call.args.content)
            fs == call.args.source_files.paths
            policy == ConsentPolicy(env)
            Has(e) == \E i \in DOMAIN g.audit : g.audit[i].event = e
            stage == [invalid_policy |-> 2, blocked_unknown_origin |-> 2,
                      blocked_strict_origin |-> 2, unknown_origin |-> 2,
                      no_project_dir |-> 3, blocked_directory |-> 3,
                      blocked_files |-> 4, secrets_found |-> 6]
            originStop == fs = <<>> /\ (policy = "require_allowlist" \/ env.strict)
            dirStop == fs # <<>> /\ enforce_allowed_dirs(fs, env) # <<>>
            fileStop == fs # <<>> /\ \E f \in Range(fs) : ~check_file_allowed(f)
            findings == scan_secrets(c0)
        IN  /\ g.verdict \in {"Rejected", "Redacted", "Passed"}
            /\ (g.verdict = "Rejected") <=> (g.reason.kind # "none")
            /\ g.verdict = "Rejected" =>
                   /\ g.content = <<>>
                   /\ g.audit[Len(g.audit)].event \in
                          {"blocked_unknown_origin", "blocked_strict_origin",
                           "blocked_directory", "blocked_files", "secrets_found"}
            /\ \A i, j \in DOMAIN g.audit :
                   i < j => stage[g.audit[i].event] <= stage[g.audit[j].event]
            /\ originStop =>
                   /\ g.verdict = "Rejected"
                   /\ g.reason.kind \in {"unknown_origin", "strict_origin"}
                   /\ ~Has("blocked_directory") /\ ~Has("blocked_files") /\ ~Has("secrets_found")
            /\ (~originStop /\ dirStop) =>
                   /\ g.verdict = "Rejected" /\ g.reason.kind = "directory"
                   /\ ~Has("blocked_files") /\ ~Has("secrets_found")
            /\ (~originStop /\ ~dirStop /\ fileStop) =>
                   /\ g.verdict = "Rejected" /\ g.reason.kind = "files"
                   /\ ~Has("secrets_found")
            /\ (~originStop /\ ~dirStop /\ ~fileStop) =>
                   IF findings = <<>>
                   THEN g.verdict = "Passed" /\ g.content = c0 /\ ~Has("secrets_found")
                   ELSE /\ Has("secrets_found")
                        /\ policy = "block" => (g.verdict = "Rejected" /\ g.reason.kind = "secrets")
                        /\ policy # "block" => g.verdict = "Redacted"

\* C28's case: files outside the allowed directories and files of a blocked
\* name came with content that holds secrets, and the directory stage
\* rejected the call
C28_RejectedAtDirectories ==
    /\ call.fn = "guard_context"
    /\ call.args.source_files = Files(<<KeyFile, OutsideFile>>)
    /\ scan_secrets(call.args.content) # <<>>
    /\ call.out.verdict = "Rejected" /\ call.out.reason.kind = "directory"

\* C29: for content of unknown origin source_files = None and
\* source_files = [] behave identically for every content and configuration:
\* guard_context rejects whenever the policy is require_allowlist (whatever
\* the strict-origin toggle and the content), rejects whenever strict origin
\* is enabled under every policy, and goes on to the secret scan only when
\* strict origin is disabled and the policy is block or redact.
C29_UnknownOrigin ==
    call.fn = "guard_context, unknown origin" =>
        LET g == call.out[1]
            policy == ConsentPolicy(env)
            scanned == g.verdict # "Rejected" \/ g.reason.kind = "secrets"
        IN  /\ call.out[1] = call.out[2]
            /\ policy = "require_allowlist" =>
                   (g.verdict = "Rejected" /\ g.reason.kind = "unknown_origin")
            /\ (policy # "require_allowlist" /\ env.strict) =>
                   (g.verdict = "Rejected" /\ g.reason.kind = "strict_origin")
            /\ scanned <=> (~env.strict /\ policy \in {"block", "redact"})
            /\ scanned =>
                   (g.verdict = "Passed" <=> scan_secrets(SizeCap(call.args.content)) = <<>>)

\* C29's case: strict origin is disabled, the policy is redact and content
\* with a secret was given with None and with the empty list
C29_ScannedWithoutOrigin ==
    /\ call.fn = "guard_context, unknown origin"
    /\ ~env.strict /\ env.policy = "redact"
    /\ call.out[1].verdict = "Redacted"
    /\ call.out[2].verdict = "Redacted"

\* C30: when the secret scan of guard_context yields at least one finding,
\* under policy block the call is rejected and no content is returned; under
\* policy redact or require_allowlist every span the scan flagged is replaced
\* by the placeholder and the call proceeds, so that the returned content
\* holds none of the characters of the values in the flagged spans.
C30_FlaggedSpansReplaced ==
    call.fn = "guard_context" =>
        LET g == call.out
            c0 == SizeCap(call.args.content)
            policy == ConsentPolicy(env)
            scanned == g.verdict # "Rejected" \/ g.reason.kind = "secrets"
            flagged == {j \in DOMAIN c0 :
                          \E k \in DOMAIN SecretPatterns :
                             LET sp == Spans(SecretPatterns[k], c0, 1)
                             IN  \E n \in DOMAIN sp : sp[n][1] <= j /\ j <= sp[n][2]}
        IN  (scanned /\ scan_secrets(c0) # <<>>) =>
                /\ policy = "block" => (g.verdict = "Rejected" /\ g.content = <<>>)
                /\ policy # "block" =>
                       /\ g.verdict = "Redacted"
                       /\ Red \in Range(g.content)
                       /\ \A j \in flagged :
                              c0[j].k \in {"run", "sym", "ak"} => c0[j] \notin Range(g.content)

\* C31 as stated: for content in which scan_secrets finds nothing, a run of
\* guard_context that is not rejected for its origin or its files returns the
\* input unchanged apart from the truncation of the size cap, under every
\* consent policy.
C31_NoFindingsInInputUnchanged ==
    call.fn = "guard_context" =>
        LET g == call.out
        IN  (/\ scan_secrets(call.args.content) = <<>>
             /\ g.reason.kind \notin {"unknown_origin", "strict_origin", "directory", "files"})
            => (g.verdict = "Passed" /\ g.content = SizeCap(call.args.content))

\* C31, amended: when scan_secrets finds nothing in the size-capped content,
\* which is the text guard_context scans, a run that is not rejected for its
\* origin or its files returns the size-capped input unchanged with verdict
\* Passed, under every consent policy.
C31_NoFindingsAfterCapUnchanged ==
    call.fn = "guard_context" =>
        LET g == call.out
        IN  (/\ scan_secrets(SizeCap(call.args.content)) = <<>>
             /\ g.reason.kind \notin {"unknown_origin", "strict_origin", "directory", "files"})
            => (g.verdict = "Passed" /\ g.content = SizeCap(call.args.content))

\* a truncated content without findings was passed under policy block
C31_TruncatedPassedUnderBlock ==
    /\ call.fn = "guard_context"
    /\ ConsentPolicy(env) = "block"
    /\ CLen(call.args.content) > MAX_CONTEXT_SIZE
    /\ scan_secrets(call.args.content) # <<>>
    /\ call.out.verdict = "Passed"
    /\ call.out.content = Take(call.args.content, MAX_CONTEXT_SIZE) \o TruncationMarker

\* C32 as stated: every run of guard_context that ends in a rejection, and
\* every run in which the scan has findings, is preceded by an append to the
\* audit trail within that run; and the audit trail only grows.
C32_RejectionsAndFindingsAppended ==
    call.fn = "guard_context" =>
        LET g == call.out
        IN  /\ (g.verdict = "Rejected" \/ g.verdict = "Redacted") =>
                   Len(auditLog) > Len(call.before)
            /\ Len(auditLog) >= Len(call.before)
            /\ SubSeq(auditLog, 1, Len(call.before)) = call.before

\* C32, amended: every run that ends in a rejection, and every run in which
\* the scan has findings, calls _audit_log with the event of that decision
\* before it raises or returns; the run appends to the audit trail exactly
\* the records whose write succeeded, in order, so that the record of the
\* decision is in the trail unless its write failed; in every step the old
\* trail is a prefix of the new one.
C32_DecisionsLoggedBestEffort ==
    /\ [](call.fn = "guard_context" =>
            LET g == call.out
                event == CASE g.reason.kind = "unknown_origin" -> "blocked_unknown_origin"
                           [] g.reason.kind = "strict_origin" -> "blocked_strict_origin"
                           [] g.reason.kind = "directory" -> "blocked_directory"
                           [] g.reason.kind = "files" -> "blocked_files"
                           [] OTHER -> "secrets_found"
                n == Len(g.audit)
            IN  /\ (g.verdict = "Rejected" \/ g.verdict = "Redacted") =>
                       /\ n > 0
                       /\ g.audit[n].event = event
                       /\ call.ok[n] =>
                              /\ Len(auditLog) > Len(call.before)
                              /\ auditLog[Len(auditLog)] = g.audit[n]
                /\ auditLog = call.before \o Kept(g.audit, call.ok, 1))
    /\ [][/\ Len(auditLog') >= Len(auditLog)
          /\ SubSeq(auditLog', 1, Len(auditLog)) = auditLog]_vars

\* a second run was rejected for a blocked file and its record is the last
\* of a trail that already held the records of the first run
C32_SecondRunLogged ==
    /\ call.fn = "guard_context"
    /\ call.run = 2
    /\ call.before # <<>>
    /\ call.out.reason.kind = "files"
    /\ Len(auditLog) > Len(call.before)
    /\ auditLog[Len(auditLog)].event = "blocked_files"

\* C33: each run of guard_context writes exactly one audit record, whatever
\* the outcome (Passed, Redacted, Rejected) and the configuration; stated for
\* the runs in which no write to the audit file failed.
C33_OneRecordPerRun ==
    (call.fn = "guard_context" /\ \A i \in DOMAIN call.ok : call.ok[i]) =>
        /\ Len(call.out.audit) = 1
        /\ Len(auditLog) = Len(call.before) + 1

\* C34: every lifecycle that acquired a slot calls record_call exactly once,
\* before release_slot, on every exit path (failed, rejected and fallback
\* outcomes included), with a token cost not below the floor of its agent
\* (1000 for codex, 500 for gemini); a lifecycle that acquired none never
\* calls it; and from the end of the retry loop on, through record_call and
\* release_slot, whether or not record_call fails, the result handed to the
\* caller stays what it was and release_slot is still called.
C34_RecordOnceBeforeRelease ==
    /\ [](\A p \in Procs :
            LET l == life[p]
            IN  /\ l.n_record <= 1
                /\ l.n_record = 1 => (l.acquired /\ l.recorded >= TokenFloor(l.agent))
                /\ l.n_release = 1 => l.n_record = 1
                /\ l.returned => /\ l.n_record = (IF l.acquired THEN 1 ELSE 0)
                                 /\ l.n_release = l.n_record)
    /\ [][\A p \in Procs :
            life[p].phase \in {"finally", "record", "release"} =>
                /\ Outcome(life'[p].result) = Outcome(life[p].result)
                /\ life'[p].phase \in {"finally", "record", "release", "none"}
                /\ life'[p].phase = "none" =>
                       (life[p].phase = "release" /\ life'[p].returned)]_vars

\* a lifecycle returned its fallback envelope after a record_call that
\* failed (the ledger holds no record of it) and a release_slot that ran
C34_RecordFailedStillReleased ==
    \E p \in Procs :
        /\ life[p].returned /\ life[p].acquired /\ life[p].result.fallback
        /\ life[p].n_record = 1 /\ life[p].n_release = 1
        /\ life[p].recorded = TokenFloor(life[p].agent)
        /\ Parse(file).calls = init0.calls
        /\ Parse(file).active_calls = init0.active_calls

\* C35: in every reachable state of any interleaving of call lifecycles,
\* standalone release_slot calls and reset_session calls in which no ledger
\* operation is in progress, the stored active_calls equals the number of
\* lifecycles that have acquired a slot and not yet released it; and never
\* are more than max_concurrent lifecycles in flight.
C35_ActiveCallsIsInFlight ==
    /\ (\A p \in Procs : pc[p] = "idle") =>
           Parse(file).active_calls = Cardinality(InFlight)
    /\ Cardinality(InFlight) <= DEFAULT_MAX_CONCURRENT

\* C36: slots are never leaked: on a ledger that started with no call in
\* flight, once every started lifecycle has returned and no ledger operation
\* is in progress, the stored active_calls is 0 again, also when a ledger
\* operation of a lifecycle hit an I/O or lock error.
C36_NoSlotLeaked ==
    (/\ init0.active_calls = 0
     /\ \A p \in Procs : life[p].phase = "none" /\ pc[p] = "idle"
     /\ \E p \in Procs : life[p].returned)
        => Parse(file).active_calls = 0

\* C37: the ledger is deadlock-free: a thread holds the file lock only while
\* it holds the mutex of its process (it takes the mutex first and releases
\* the file lock first), at most one thread of a process is inside the mutex,
\* and under fair scheduling every ledger operation that a thread of any
\* process invoked eventually returns.
C37_DeadlockFree ==
    /\ [](\A t \in Procs :
            /\ t \in lockOwner => HoldsMutex(t)
            /\ \A u \in Procs \ {t} :
                  (world.process[u] = world.process[t] /\ HoldsMutex(t)) => ~HoldsMutex(u))
    /\ \A t \in Procs : (pc[t] # "idle") ~> (pc[t] = "idle")

\* a thread waits for the mutex that a thread of its process holds together
\* with the file lock
C37_WaitingForMutex ==
    \E t, u \in Procs :
        /\ t # u /\ world.process[t] = world.process[u]
        /\ pc[t] = "mutex"
        /\ lockOwner = {u}

C39_TotalIsSumOfLog ==
    /\ Parse(file).total_tokens = SumTokens(Parse(file).calls)
    /\ \A p \in Procs :
          /\ st[p] # <<>> => st[p].total_tokens = SumTokens(st[p].calls)
          /\ buf[p].kind = "state" => buf[p].st.total_tokens = SumTokens(buf[p].st.calls)
          /\ (op[p] = "get_summary" /\ ret[p] # RetNone) =>
                LET r == ret[p]
                    tokens(a) == IF a \in DOMAIN r.by_agent THEN r.by_agent[a].tokens ELSE 0
                    calls(a) == IF a \in DOMAIN r.by_agent THEN r.by_agent[a].calls ELSE 0
                IN  /\ DOMAIN r.by_agent \subseteq {"codex", "gemini"}
                    /\ r.total_tokens = tokens("codex") + tokens("gemini")
                    /\ r.total_calls = calls("codex") + calls("gemini")
                    /\ r.remaining_tokens = r.budget_limit - r.total_tokens
                    /\ pc[p] = "unlock" => r.total_calls = Len(st[p].calls)

\* get_summary returned a summary of records of both agents, one of them
\* written by a record_call of this run
C39_SummaryOfTwoAgents ==
    \E p \in Procs :
        /\ op[p] = "get_summary" /\ pc[p] = "idle"
        /\ ret[p] # RetNone
        /\ DOMAIN ret[p].by_agent = {"codex", "gemini"}
        /\ ret[p].total_calls = 2
        /\ ret[p].total_tokens = 495500
        /\ recCnt = 1

\* C40: a delegate attempt is never started against a stale budget: whenever
\* the acquire_slot of a lifecycle has loaded the ledger state and finds a
\* free slot, so that the lifecycle takes the slot and goes on to its attempt,
\* the remaining tokens of that state, in which the cost of every lifecycle
\* that released before is recorded, are at least the lifecycle's estimated
\* token cost.
C40_BudgetFreshAtAcquire ==
    \A p \in Procs :
        (/\ life[p].phase = "acquire" /\ op[p] = "acquire_slot"
         /\ pc[p] = "loaded" /\ SlotFree(st[p]))
            => st[p].budget_limit - st[p].total_tokens >= EstimatedTokens(life[p].agent)

====
